---- MODULE Spec2Model ----
(***************************************************************************)
(* K2 note engine of raket-arsredovisning: the SIE ledger readers, the     *)
(* account classification (preclass) and the per-voucher roll-forward      *)
(* classifiers for group shares (koncern), associate shares (intresseftg), *)
(* buildings (bygg) and machinery (maskiner).                              *)
(*                                                                         *)
(* A ledger is read line by line.  A line is a record whose kind is the    *)
(* tag the source's regular expressions recognise; amount fields are kept  *)
(* as text (sequences of characters) and converted the way the source      *)
(* converts them.  Account names and voucher texts are sequences of words. *)
(* Amounts are whole currency units.                                       *)
(***************************************************************************)
EXTENDS Integers, Sequences, FiniteSets, TLC

(***************************************************************************)
(* Bounds of the model.                                                    *)
(***************************************************************************)
\* balance lines (#IB/#UB/#RES) read in one ledger
MaxBal == 2
\* postings recorded in one ledger, all vouchers together
MaxTrans == 3

(***************************************************************************)
(* Generic helpers.                                                        *)
(***************************************************************************)
Min(a, b) == IF a <= b THEN a ELSE b
Max(a, b) == IF a >= b THEN a ELSE b
Abs(x) == IF x < 0 THEN -x ELSE x

RECURSIVE SumOver(_, _)
\* sum of f[x] for x in the finite set S
SumOver(S, f) ==
  IF S = {} THEN 0
  ELSE LET x == CHOOSE y \in S : TRUE IN f[x] + SumOver(S \ {x}, f)

\* s[i..j] of a sequence (empty when j < i)
Slice(s, i, j) == [k \in 1..(j - i + 1) |-> s[i + k - 1]]

\* pat occurs in s as a run of consecutive elements
Occurs(pat, s) ==
  /\ Len(pat) >= 1
  /\ \E i \in 1..Len(s) :
       /\ i + Len(pat) - 1 <= Len(s)
       /\ \A k \in 1..Len(pat) : s[i + k - 1] = pat[k]

(***************************************************************************)
(* Amount text and its conversion to a number.                             *)
(***************************************************************************)
Digits == {"0", "1", "2", "5"}
DigitVal(c) == CASE c = "0" -> 0 [] c = "1" -> 1 [] c = "2" -> 2 [] c = "5" -> 5

RECURSIVE IntOf(_)
\* the number written by a sequence of digits
IntOf(ds) ==
  IF ds = <<>> THEN 0
  ELSE 10 * IntOf(SubSeq(ds, 1, Len(ds) - 1)) + DigitVal(ds[Len(ds)])

NotSpace(c) == c # " "

\* s.replace(" ", "").replace(",", ".")
Unformat(s) ==
  LET t == SelectSeq(s, NotSpace)
  IN  [i \in 1..Len(t) |-> IF t[i] = "," THEN "." ELSE t[i]]

\* Python float() on text made of "-", digits and ".": at most one ".",
\* at least one digit, "-" only in front.  ok = FALSE is ValueError.
\* The fraction digits of every text the model reads are zeros, so the
\* value is the integer part.
PyFloat(t) ==
  LET neg  == Len(t) >= 1 /\ t[1] = "-"
      body == IF neg THEN Tail(t) ELSE t
      dots == {i \in 1..Len(body) : body[i] = "."}
      dot  == IF dots = {} THEN Len(body) + 1 ELSE CHOOSE i \in dots : TRUE
      ip   == SubSeq(body, 1, dot - 1)
      fp   == SubSeq(body, dot + 1, Len(body))
      ok   == /\ Cardinality(dots) <= 1
              /\ \A i \in 1..Len(body) : body[i] \in Digits \cup {"."}
              /\ Len(ip) + Len(fp) >= 1
  IN  [ok |-> ok,
       val |-> IF ok THEN (IF neg THEN -IntOf(ip) ELSE IntOf(ip)) ELSE 0]

\* _f / _to_float
ToFloat(s) == PyFloat(Unformat(s))

\* group 4 of rx_bal / bal_re: -?[0-9][0-9\s.,]*
BalAmountShape(s) ==
  LET body == IF Len(s) >= 1 /\ s[1] = "-" THEN Tail(s) ELSE s
  IN  /\ Len(body) >= 1
      /\ body[1] \in Digits
      /\ \A i \in 1..Len(body) : body[i] \in Digits \cup {" ", ",", "."}

\* \d{1,3}(?:[ ]?\d{3})*|\d+  on a whole field
GroupedDigits(d) ==
  LET sp == {i \in 1..Len(d) : d[i] = " "}
  IN  /\ Len(d) >= 1
      /\ \A i \in 1..Len(d) : d[i] \in Digits \cup {" "}
      /\ sp # {} =>
           /\ \A i \in sp : i + 3 <= Len(d) /\ (i + 3 = Len(d) \/ i + 4 \in sp)
           /\ \E i \in sp : i \in 2..4 /\ \A j \in sp : i <= j

\* the amount group of trans_re:
\* -?(?:\d{1,3}(?:[  ]?\d{3})*|\d+)(?:[.,]\d+)?
TransAmountShape(s) ==
  LET body  == IF Len(s) >= 1 /\ s[1] = "-" THEN Tail(s) ELSE s
      marks == {i \in 1..Len(body) : body[i] \in {",", "."}}
      m     == IF marks = {} THEN Len(body) + 1 ELSE CHOOSE i \in marks : TRUE
      fp    == SubSeq(body, m + 1, Len(body))
  IN  /\ Cardinality(marks) <= 1
      /\ GroupedDigits(SubSeq(body, 1, m - 1))
      /\ marks # {} => (Len(fp) >= 1 /\ \A i \in 1..Len(fp) : fp[i] \in Digits)

(***************************************************************************)
(* Words.  A name or a voucher text is a sequence of words; the tables     *)
(* below give, for the words the model uses, what the source's string      *)
(* functions and keyword searches make of them.                            *)
(***************************************************************************)
\* str.lower()
Lower(w) ==
  CASE w = "Andelar" -> "andelar"
    [] w = "Acme" -> "acme"
    [] w = "AB" -> "ab"
    [] w = "Fordran" -> "fordran"
    [] w = "Aktieägartillskott" -> "aktieägartillskott"
    [] w = "Ack" -> "ack"
    [] w = "Skuld" -> "skuld"
    [] w = "Bank" -> "bank"
    [] w = "Fusion" -> "fusion"
    [] w = "Avyttring" -> "avyttring"
    [] w = "Försäljning" -> "försäljning"
    [] w = "Utbetalning" -> "utbetalning"
    [] OTHER -> w

\* NFKD and dropping the combining marks, on a lower-case word
Fold(w) ==
  CASE w = "intresseföretag" -> "intresseforetag"
    [] w = "aktieägartillskott" -> "aktieagartillskott"
    [] w = "försäljning" -> "forsaljning"
    [] OTHER -> w

\* the first character is in [A-ZÅÄÖ]
Capitalised(w) ==
  w \in {"Andelar", "Acme", "AB", "Fordran", "Aktieägartillskott", "Ack",
         "Skuld", "Bank", "Fusion", "Avyttring", "Försäljning", "Utbetalning"}

\* the keywords of the source's lists that occur inside a (lower-case) word
KwIn(w) ==
  CASE w = "andelar" -> {"andel", "andelar"}
    [] w = "fordran" -> {"fordr", "fordran"}
    [] w = "skuld" -> {"skuld"}
    [] w = "ack" -> {"ack"}
    [] w = "nedskrivning" -> {"nedskr", "nedskriv"}
    [] w = "fusion" -> {"fusion"}
    [] w = "avyttring" -> {"avyttr"}
    [] w = "utbetalning" -> {"utbet", "utbetal"}
    [] w = "intresseföretag" -> {"intresseföretag", "intresse", "företag"}
    [] w = "intresseforetag" -> {"intresseforetag", "intresse", "foretag"}
    [] w = "aktieägartillskott" -> {"aktieägartillskott", "aktie", "tillskott"}
    [] w = "aktieagartillskott" ->
         {"aktieagartillskott", "aktie", "tillskott", "aktieagar",
          "agartillskott", "agartill"}
    [] OTHER -> {}

\* any(k in text for k in kws) on a sequence of words
HasKw(ws, kws) == \E i \in 1..Len(ws) : KwIn(ws[i]) \cap kws # {}
\* \b(w1|w2|...)\b on a sequence of words
HasWord(ws, words) == \E i \in 1..Len(ws) : ws[i] \in words

LowerText(ws) == [i \in 1..Len(ws) |-> Lower(ws[i])]
FoldText(ws) == [i \in 1..Len(ws) |-> Fold(ws[i])]

\* koncern_k2_parser._norm_text: fold and lower every word (the two commute)
NormText(ws) == [i \in 1..Len(ws) |-> Fold(Lower(ws[i]))]

(***************************************************************************)
(* Ledgers.  The model reads ledgers of a few kinds; a kind fixes the      *)
(* chart of accounts (#KONTO, #SRU), the lines the body of the ledger may  *)
(* contain and the arguments the entry points are called with.             *)
(***************************************************************************)
NShare == <<"Andelar", "i", "Acme", "AB">>
NRecv == <<"Fordran", "Acme", "AB">>
NIntr == <<"Andelar", "intresseföretag", "Acme", "AB">>
NAat == <<"Aktieägartillskott", "Acme", "AB">>
NImp == <<"Ack", "nedskrivning", "andelar">>
NSkuldIntr == <<"Skuld", "intresseföretag", "Acme", "AB">>
NSkuld == <<"Skuld", "Beta", "AB">>
NPlain == <<"Bank">>

LedgerKinds == {"K1", "K2", "KS", "KI", "KD", "KA", "KV", "B1", "B2", "B3", "B4", "M1", "I1",
                "I2"}

\* a function given by its pairs
FromPairs(ps) == [a \in {p[1] : p \in ps} |-> (CHOOSE p \in ps : p[1] = a)[2]]

\* the #KONTO lines of the ledger: account number and quoted name
KontoLines(k) ==
  CASE k = "K1" -> {<<1310, NShare>>, <<1311, NShare>>, <<1930, NPlain>>}
    [] k = "K2" -> {<<1310, NShare>>, <<1318, NImp>>, <<8030, NPlain>>,
                    <<8220, NPlain>>}
    [] k = "KS" -> {<<1310, NShare>>, <<1312, NRecv>>, <<1313, NAat>>,
                    <<1318, NImp>>}
    [] k = "KI" -> {<<1310, NShare>>, <<1315, NIntr>>, <<1330, NIntr>>,
                    <<2863, NSkuldIntr>>}
    [] k = "KD" -> {<<1310, NShare>>, <<1318, NImp>>, <<1319, NImp>>,
                    <<8220, NPlain>>}
    [] k = "KA" -> {<<1310, NShare>>, <<2460, NSkuld>>}
    [] k = "KV" -> {<<1310, NShare>>, <<1930, NPlain>>}
    [] k = "B1" -> {<<1110, NPlain>>, <<1111, NPlain>>, <<1119, NPlain>>,
                    <<2085, NPlain>>}
    [] k = "B2" -> {<<1110, NPlain>>, <<1119, NPlain>>, <<2085, NPlain>>,
                    <<7820, NPlain>>}
    [] k = "B3" -> {<<1158, NPlain>>, <<1218, NPlain>>, <<7720, NPlain>>}
    [] k = "B4" -> {<<1158, NPlain>>, <<7720, NPlain>>, <<7770, NPlain>>}
    [] k = "M1" -> {<<1215, NPlain>>, <<1218, NPlain>>, <<1219, NPlain>>,
                    <<3973, NPlain>>}
    [] k = "I1" -> {<<1330, NShare>>, <<1332, NImp>>, <<1335, NAat>>,
                    <<8240, NPlain>>}
    [] k = "I2" -> {<<1330, NShare>>, <<1335, NAat>>, <<1930, NPlain>>}

\* the #SRU lines of the ledger: account number and code
SruLines(k) ==
  CASE k = "M1" -> {<<1215, 7214>>}
    [] k = "B2" -> {<<1110, 7215>>}
    [] OTHER -> {}

\* company names handed in from outside (scraper), per ledger kind
ExternalNames(k) ==
  CASE k = "KS" -> {<<"Acme", "AB">>}
    [] k = "KI" -> {<<"Acme", "AB">>}
    [] k = "KA" -> {<<"AB">>}
    [] OTHER -> {}

\* whether the koncern parser is given run_preclass's account sets
Seeded(k) == k \in {"KS", "KI", "KA"}

Accounts(k) == {p[1] : p \in KontoLines(k)}

\* amount texts: whole, with a decimal part, and with two decimal marks
One == <<"1">>
Two == <<"2">>
MinusOne == <<"-", "1">>
MinusTwo == <<"-", "2">>
TwoComma == <<"2", ",", "0">>
TwoMarks == <<"1", ".", "0", ",", "0">>

BalLine(tag, yr, acct, amt) ==
  [kind |-> "BAL", tag |-> tag, yr |-> yr, acct |-> acct, amt |-> amt]
TransLine(acct, amt) == [kind |-> "TRANS", acct |-> acct, amt |-> amt]

\* the balance lines a ledger of kind k may contain
BalLines(k) ==
  CASE k = "K1" -> {BalLine("IB", 0, 1310, One), BalLine("UB", 0, 1310, Two),
                    BalLine("UB", 0, 1311, MinusOne)}
    [] k = "K2" -> {BalLine("RES", 0, 8030, MinusOne), BalLine("IB", 0, 1310, TwoMarks),
                    BalLine("UB", 0, 1310, One)}
    [] k = "KS" -> {BalLine("UB", 0, 1312, One), BalLine("UB", 0, 1313, One),
                    BalLine("UB", 0, 1318, MinusOne), BalLine("IB", -1, 1310, Two)}
    [] k = "KI" -> {BalLine("UB", 0, 1315, One), BalLine("UB", 0, 1330, One),
                    BalLine("UB", 0, 2863, MinusOne)}
    [] k = "KD" -> {BalLine("IB", 0, 1310, Two), BalLine("IB", 0, 1319, MinusOne)}
    [] k = "KA" -> {BalLine("UB", 0, 1310, One), BalLine("UB", 0, 2460, MinusOne)}
    [] k = "KV" -> {BalLine("IB", 0, 1310, Two)}
    [] k = "B1" -> {BalLine("IB", 0, 1110, One), BalLine("IB", 0, 1110, Two),
                    BalLine("UB", 0, 1110, Two)}
    [] k = "B2" -> {BalLine("IB", 0, 1110, Two), BalLine("IB", 0, 1119, MinusOne)}
    [] k = "B3" -> {BalLine("IB", 0, 1158, MinusOne)}
    [] k = "B4" -> {BalLine("IB", 0, 1158, MinusOne)}
    [] k = "M1" -> {BalLine("IB", 0, 1215, One)}
    [] k = "I1" -> {BalLine("IB", 0, 1330, One), BalLine("IB", 0, 1335, One)}
    [] k = "I2" -> {BalLine("IB", 0, 1335, One)}

\* the posting lines a ledger of kind k may contain
TransLines(k) ==
  CASE k = "K1" -> {TransLine(1310, Two), TransLine(1311, MinusTwo),
                    TransLine(1310, TwoMarks)}
    [] k = "K2" -> {TransLine(1310, One), TransLine(8030, MinusOne),
                    TransLine(8220, MinusOne)}
    [] k = "KS" -> {TransLine(1312, One)}
    [] k = "KI" -> {TransLine(1315, One)}
    [] k = "KD" -> {TransLine(1310, MinusTwo), TransLine(1318, One),
                    TransLine(1319, One), TransLine(8220, One)}
    [] k = "KA" -> {TransLine(1310, One)}
    [] k = "KV" -> {TransLine(1310, MinusTwo), TransLine(1930, Two)}
    [] k = "B1" -> {TransLine(1110, TwoComma), TransLine(1111, MinusTwo),
                    TransLine(2085, MinusOne)}
    [] k = "B2" -> {TransLine(1119, MinusTwo), TransLine(2085, One),
                    TransLine(7820, One)}
    [] k = "B3" -> {TransLine(1158, MinusOne), TransLine(1218, MinusOne),
                    TransLine(7720, Two)}
    [] k = "B4" -> {TransLine(1158, One), TransLine(7720, MinusOne),
                    TransLine(7770, MinusOne)}
    [] k = "M1" -> {TransLine(1215, Two), TransLine(1215, MinusTwo),
                    TransLine(3973, MinusOne)}
    [] k = "I1" -> {TransLine(1330, Two), TransLine(1335, One),
                    TransLine(8240, MinusOne)}
    [] k = "I2" -> {TransLine(1330, Two), TransLine(1335, MinusOne),
                    TransLine(1930, One)}

\* voucher header texts of a ledger kind: quoted flag and words
NoText == [quoted |-> FALSE, words |-> <<>>]
VerTexts(k) ==
  CASE k = "K2" -> {NoText, [quoted |-> TRUE, words |-> <<"Fusion">>]}
    [] k = "I1" -> {NoText, [quoted |-> FALSE, words |-> <<"Fusion">>]}
    [] k = "KV" -> {NoText, [quoted |-> TRUE, words |-> <<"Avyttring">>]}
    [] OTHER -> {NoText}

\* voucher sequence numbers of a ledger kind (the series is "A")
VerNos(k) == IF k \in {"K1", "I2"} THEN {1, 2} ELSE {1}
Keys == {<<"A", 1>>, <<"A", 2>>}
None == <<>>

VerLines(k) ==
  [kind : {"VER"}, key : {<<"A", n>> : n \in VerNos(k)}, text : VerTexts(k)]

(***************************************************************************)
(* State.                                                                  *)
(***************************************************************************)
VARIABLES
  ledger,       \* the kind of ledger being read
  pc,           \* "read": reading lines; "done": results returned;
                \* "ValueError", "KeyError": the run was aborted by
                \* that exception
  konto_name,   \* account -> name, from #KONTO
  sru_codes,    \* account -> SRU code, from #SRU
  ib, ub, res,  \* koncern parser: year-0 balances per account
  balances,     \* preclass_reclassifier.parse_sie: <<account, year, tag>> -> amount
  ib_total,     \* get_balance('IB', ...): running total per account
  nbal,         \* balance lines read so far
  trans_by_ver, \* voucher key -> postings <<account, amount>>
  text_by_ver,  \* voucher key -> header text
  current_ver,  \* key of the last voucher header, or None
  in_block,     \* inside { }
  blocks,       \* history: voucher key -> number of voucher blocks whose
                \* postings were recorded under the key
  fresh,        \* history: no posting recorded since the last header
  bracket,      \* history: the keys postings were recorded under since
                \* the last {
  out           \* what the run returned (when pc = "done")

vars == <<ledger, pc, konto_name, sru_codes, ib, ub, res, balances, ib_total,
          nbal, trans_by_ver, text_by_ver, current_ver, in_block, blocks,
          fresh, bracket, out>>

balvars == <<ib, ub, res, balances, ib_total, nbal>>
vervars == <<trans_by_ver, text_by_ver, current_ver, in_block, blocks, fresh,
            bracket>>

BalAccounts(k) == {l.acct : l \in BalLines(k)}
BalKeys(k) == BalAccounts(k) \X {0, -1} \X {"IB", "UB", "RES"}

NoOut == [done |-> FALSE]

Init ==
  /\ ledger \in LedgerKinds
  /\ pc = "read"
  /\ konto_name = FromPairs(KontoLines(ledger))
  /\ sru_codes = FromPairs(SruLines(ledger))
  /\ ib = [a \in BalAccounts(ledger) |-> 0]
  /\ ub = [a \in BalAccounts(ledger) |-> 0]
  /\ res = [a \in BalAccounts(ledger) |-> 0]
  /\ balances = [x \in BalKeys(ledger) |-> 0]
  /\ ib_total = [a \in BalAccounts(ledger) |-> 0]
  /\ nbal = 0
  /\ trans_by_ver = [key \in Keys |-> <<>>]
  /\ text_by_ver = [key \in Keys |-> NoText]
  /\ current_ver = None
  /\ in_block = FALSE
  /\ blocks = [key \in Keys |-> 0]
  /\ fresh = FALSE
  /\ bracket = {}
  /\ out = NoOut

(***************************************************************************)
(* Reading the ledger, one line per step.                                  *)
(***************************************************************************)
\* a #IB/#UB/#RES line
ReadBal(l) ==
  /\ pc = "read"
  /\ nbal < MaxBal
  /\ l \in BalLines(ledger)
  /\ IF ~BalAmountShape(l.amt)
       THEN UNCHANGED <<pc, balvars>>
     ELSE IF ~ToFloat(l.amt).ok
       THEN /\ pc' = "ValueError"
            /\ UNCHANGED balvars
     ELSE LET v == ToFloat(l.amt).val IN
          /\ pc' = pc
          /\ nbal' = nbal + 1
          /\ ib' = IF l.yr = 0 /\ l.tag = "IB" THEN [ib EXCEPT ![l.acct] = v] ELSE ib
          /\ ub' = IF l.yr = 0 /\ l.tag = "UB" THEN [ub EXCEPT ![l.acct] = v] ELSE ub
          /\ res' = IF l.yr = 0 /\ l.tag = "RES"
                      THEN [res EXCEPT ![l.acct] = @ + v] ELSE res
          /\ balances' = [balances EXCEPT ![<<l.acct, l.yr, l.tag>>] = v]
          /\ ib_total' = IF l.yr = 0 /\ l.tag = "IB"
                           THEN [ib_total EXCEPT ![l.acct] = @ + v] ELSE ib_total
  /\ UNCHANGED <<ledger, konto_name, sru_codes, vervars, out>>

\* a #VER header line
ReadVer(l) ==
  /\ pc = "read"
  /\ l \in VerLines(ledger)
  /\ current_ver' = l.key
  /\ text_by_ver' = [text_by_ver EXCEPT ![l.key] = l.text]
  /\ fresh' = TRUE
  /\ UNCHANGED <<ledger, pc, konto_name, sru_codes, balvars, trans_by_ver,
                 in_block, blocks, bracket, out>>

\* a line that is "{"
ReadOpen ==
  /\ pc = "read"
  /\ in_block' = TRUE
  /\ bracket' = IF in_block THEN bracket ELSE {}
  /\ UNCHANGED <<ledger, pc, konto_name, sru_codes, balvars, trans_by_ver,
                 text_by_ver, current_ver, blocks, fresh, out>>

\* a line that is "}"
ReadClose ==
  /\ pc = "read"
  /\ in_block' = FALSE
  /\ current_ver' = None
  /\ bracket' = {}
  /\ UNCHANGED <<ledger, pc, konto_name, sru_codes, balvars, trans_by_ver,
                 text_by_ver, blocks, fresh, out>>

NTrans == SumOver(Keys, [key \in Keys |-> Len(trans_by_ver[key])])

\* a posting line recorded under the last header whether or not a block
\* is open
ReadTransAnywhere(l) ==
  /\ pc = "read"
  /\ l \in TransLines(ledger)
  /\ IF current_ver # None /\ TransAmountShape(l.amt)
       THEN /\ NTrans < MaxTrans
            /\ trans_by_ver' =
                 [trans_by_ver EXCEPT
                    ![current_ver] = Append(@, <<l.acct, ToFloat(l.amt).val>>)]
            /\ blocks' = IF fresh THEN [blocks EXCEPT ![current_ver] = @ + 1]
                          ELSE blocks
            /\ fresh' = FALSE
            /\ bracket' = bracket \cup {current_ver}
       ELSE UNCHANGED <<trans_by_ver, blocks, fresh, bracket>>
  /\ UNCHANGED <<ledger, pc, konto_name, sru_codes, balvars, text_by_ver,
                 current_ver, in_block, out>>

\* a #TRANS/#BTRANS/#RTRANS line
ReadTrans(l) ==
  /\ pc = "read"
  /\ l \in TransLines(ledger)
  /\ IF in_block /\ current_ver # None /\ TransAmountShape(l.amt)
       THEN /\ NTrans < MaxTrans
            /\ trans_by_ver' =
                 [trans_by_ver EXCEPT
                    ![current_ver] = Append(@, <<l.acct, ToFloat(l.amt).val>>)]
            /\ blocks' = IF fresh THEN [blocks EXCEPT ![current_ver] = @ + 1]
                          ELSE blocks
            /\ fresh' = FALSE
            /\ bracket' = bracket \cup {current_ver}
       ELSE UNCHANGED <<trans_by_ver, blocks, fresh, bracket>>
  /\ UNCHANGED <<ledger, pc, konto_name, sru_codes, balvars, text_by_ver,
                 current_ver, in_block, out>>

\* a line none of the patterns matches
ReadOther ==
  /\ pc = "read"
  /\ UNCHANGED vars

ReadNext ==
  \/ \E l \in BalLines(ledger) : ReadBal(l)
  \/ \E l \in VerLines(ledger) : ReadVer(l)
  \/ ReadOpen
  \/ ReadClose
  \/ \E l \in TransLines(ledger) : ReadTrans(l)
  \/ ReadOther

(***************************************************************************)
(* Postings of one voucher.                                                *)
(***************************************************************************)
RECURSIVE SeqSum(_)
SeqSum(s) == IF s = <<>> THEN 0 ELSE Head(s) + SeqSum(Tail(s))

\* sum(amt for a, amt in txs if a in S and amt > 0)
Debit(txs, S) ==
  SeqSum([i \in 1..Len(txs) |->
            IF txs[i][1] \in S /\ txs[i][2] > 0 THEN txs[i][2] ELSE 0])
\* sum(-amt for a, amt in txs if a in S and amt < 0)
Credit(txs, S) ==
  SeqSum([i \in 1..Len(txs) |->
            IF txs[i][1] \in S /\ txs[i][2] < 0 THEN -txs[i][2] ELSE 0])
\* the accounts a voucher posts on
Posted(txs) == {txs[i][1] : i \in 1..Len(txs)}

\* the vouchers whose block was closed by }
ClosedVouchers ==
  {key \in Keys : trans_by_ver[key] # <<>> /\ ~(in_block /\ key = current_ver)}

\* the vouchers that hold postings: the keys of trans_by_ver
Vouchers == {key \in Keys : trans_by_ver[key] # <<>>}

\* dict.get(a, 0.0)
Get(d, a) == IF a \in DOMAIN d THEN d[a] ELSE 0
\* konto_name.get(a, "")
NameOf(a) == IF a \in DOMAIN konto_name THEN konto_name[a] ELSE <<>>

(***************************************************************************)
(* koncern_k2_parser: account classification.                              *)
(***************************************************************************)
\* the keywords that start a word
Prefixes(w) ==
  CASE w = "nedskrivning" -> {"nedskr", "nedskriv"}
    [] w = "ack" -> {"ack"}
    [] OTHER -> {}

\* ACK_IMP_PAT / IMP_PAT:
\* \b(?:ack(?:[.\s]*nedskr\w*)|ackum\w*|nedskriv\w*)\b, ignoring case
ImpPat(ws) ==
  \E i \in 1..Len(ws) :
    \/ "nedskriv" \in Prefixes(Lower(ws[i]))
    \/ "ackum" \in Prefixes(Lower(ws[i]))
    \/ Lower(ws[i]) = "ack" /\ i < Len(ws) /\ "nedskr" \in Prefixes(Lower(ws[i + 1]))

\* FORDR_PAT of koncern_k2_parser
is_receivable(nm) ==
  HasWord(nm, {"fordran", "fordringar", "lan", "lån", "ranta", "ränta",
               "amort", "avbetal"})

is_aat(nm) ==
  HasKw(nm, {"aktieagartillskott", "aktieägartillskott", "villkorat",
             "ovillkorat", "tillskott", "aat"})

\* _name_variants of every scraper company name
NameTokens(companies) ==
  LET suffixes == {"ab", "kb", "hb", "kommanditbolag", "aktiebolag"}
      variants(nm) ==
        LET n == NormText(nm)
        IN  {n} \cup (IF Len(n) >= 2 /\ n[Len(n)] \in suffixes
                        THEN {SubSeq(n, 1, Len(n) - 1)} ELSE {})
  IN  {v \in UNION {variants(nm) : nm \in companies} : v # <<>>}

is_share_koncern(nm, name_tokens) ==
  \/ /\ HasKw(nm, {"koncern", "koncernföretag", "koncernforetag", "dotter"})
     /\ HasKw(nm, {"andel", "andelar", "aktie", "aktier"})
  \/ \E tok \in name_tokens : Occurs(tok, nm)

is_imp_text(nm) == ImpPat(nm)

\* the seeded shareholder-contribution and impairment sets read under each
\* other's keys
KoncernSetsSwapped(seeds, companies) ==
  LET nm(a) == NormText(NameOf(a))
      toks == NameTokens(companies)
      imp1 == {a \in 1310..1318 : a = 1318 \/ is_imp_text(nm(a))}
      rest1 == {a \in 1310..1318 : a \notin imp1 /\ ~is_receivable(nm(a))}
      rest2 == {a \in 1320..1329 : nm(a) # <<>> /\ ~is_receivable(nm(a))}
      hint3 == {a \in 1330..1339 :
                  /\ nm(a) # <<>>
                  /\ ~is_receivable(nm(a))
                  /\ \E tok \in toks : Occurs(tok, nm(a))}
  IN  [andel |-> seeds.andel
                   \cup {a \in rest1 : ~is_aat(nm(a))}
                   \cup {a \in rest2 : ~is_aat(nm(a)) /\ is_share_koncern(nm(a), toks)}
                   \cup hint3,
       aat |-> seeds.imp
                 \cup {a \in rest1 : is_aat(nm(a))}
                 \cup {a \in rest2 : is_aat(nm(a))},
       imp |-> seeds.aat \cup imp1]

\* the three account sets of the koncern parser; seeds are the sets
\* handed in by preclass (empty sets when none are given)
KoncernSets(seeds, companies) ==
  LET nm(a) == NormText(NameOf(a))
      toks == NameTokens(companies)
      imp1 == {a \in 1310..1318 : a = 1318 \/ is_imp_text(nm(a))}
      rest1 == {a \in 1310..1318 : a \notin imp1 /\ ~is_receivable(nm(a))}
      rest2 == {a \in 1320..1329 : nm(a) # <<>> /\ ~is_receivable(nm(a))}
      hint3 == {a \in 1330..1339 :
                  /\ nm(a) # <<>>
                  /\ ~is_receivable(nm(a))
                  /\ \E tok \in toks : Occurs(tok, nm(a))}
  IN  [andel |-> seeds.andel
                   \cup {a \in rest1 : ~is_aat(nm(a))}
                   \cup {a \in rest2 : ~is_aat(nm(a)) /\ is_share_koncern(nm(a), toks)}
                   \cup hint3,
       aat |-> seeds.aat
                 \cup {a \in rest1 : is_aat(nm(a))}
                 \cup {a \in rest2 : is_aat(nm(a))},
       imp |-> seeds.imp \cup imp1]

NoSeeds == [andel |-> {}, aat |-> {}, imp |-> {}]

(***************************************************************************)
(* koncern_k2_parser: one voucher.                                         *)
(***************************************************************************)
SALE_PNL == 8220..8229
RES_SHARE_SET == {8030, 8240}
BankAccounts == 1900..1999

\* the merger keyword looked up with the operands of `in` exchanged: the
\* header text sought in the keyword
KoncernSumsTextInKeyword(txs, text, S) ==
  [A_ANDEL_D |-> Debit(txs, S.andel),
   A_ANDEL_K |-> Credit(txs, S.andel),
   A_AAT_D |-> Debit(txs, S.aat),
   A_AAT_K |-> Credit(txs, S.aat),
   IMP_D0 |-> Debit(txs, S.imp),
   IMP_K |-> Credit(txs, S.imp),
   RES_K |-> Credit(txs, RES_SHARE_SET),
   RES_D |-> Debit(txs, RES_SHARE_SET),
   is_fusion |-> text = <<>> \/ text = <<"fusion">>,
   has_sale_pnl |-> Posted(txs) \cap SALE_PNL # {},
   other_accts |-> Posted(txs) \ (S.andel \cup S.aat \cup S.imp \cup RES_SHARE_SET),
   bank_debet |-> Debit(txs, BankAccounts),
   kw_sale |-> HasKw(text, {"försälj", "avyttr", "sale"}),
   kw_settlement |-> HasKw(text, {"utbet", "utbetal", "resultatandel", "kb",
                                  "hb", "kommandit", "handelsbolag"})]

\* the sums and flags of one voucher; text is the normalised header text
\* ("kap andel" spans two words; no text of the model holds it)
KoncernSums(txs, text, S) ==
  [A_ANDEL_D |-> Debit(txs, S.andel),
   A_ANDEL_K |-> Credit(txs, S.andel),
   A_AAT_D |-> Debit(txs, S.aat),
   A_AAT_K |-> Credit(txs, S.aat),
   IMP_D0 |-> Debit(txs, S.imp),
   IMP_K |-> Credit(txs, S.imp),
   RES_K |-> Credit(txs, RES_SHARE_SET),
   RES_D |-> Debit(txs, RES_SHARE_SET),
   is_fusion |-> HasKw(text, {"fusion"}),
   has_sale_pnl |-> Posted(txs) \cap SALE_PNL # {},
   other_accts |-> Posted(txs) \ (S.andel \cup S.aat \cup S.imp \cup RES_SHARE_SET),
   bank_debet |-> Debit(txs, BankAccounts),
   kw_sale |-> HasKw(text, {"försälj", "avyttr", "sale"}),
   kw_settlement |-> HasKw(text, {"utbet", "utbetal", "resultatandel", "kb",
                                  "hb", "kommandit", "handelsbolag"})]

\* the credit on 8030/8240 booked as result share whether or not the
\* voucher debits a share account
KoncernShareUnguarded(v) ==
  [A_D_total |-> v.A_ANDEL_D + v.A_AAT_D,
   A_K_total |-> v.A_ANDEL_K + v.A_AAT_K,
   res_plus |-> v.RES_K,
   res_minus |-> IF v.RES_D > 0 /\ v.A_ANDEL_K + v.A_AAT_K > 0
                   THEN Min(v.A_ANDEL_K + v.A_AAT_K, v.RES_D) ELSE 0]

\* 1) result share: what the voucher books against 8030/8240
KoncernShare(v) ==
  [A_D_total |-> v.A_ANDEL_D + v.A_AAT_D,
   A_K_total |-> v.A_ANDEL_K + v.A_AAT_K,
   res_plus |-> IF v.RES_K > 0 /\ v.A_ANDEL_D + v.A_AAT_D > 0
                  THEN Min(v.A_ANDEL_D + v.A_AAT_D, v.RES_K) ELSE 0,
   res_minus |-> IF v.RES_D > 0 /\ v.A_ANDEL_K + v.A_AAT_K > 0
                   THEN Min(v.A_ANDEL_K + v.A_AAT_K, v.RES_D) ELSE 0]

\* what is left of the asset debits and credits once the result share
\* has consumed its part
KoncernRest(v, r) ==
  LET consume_andel_D == Min(v.A_ANDEL_D, r.res_plus)
      consume_andel_K == Min(v.A_ANDEL_K, r.res_minus)
  IN  [rem_andel_D |-> Max(0, v.A_ANDEL_D - consume_andel_D),
       rem_aat_D |-> Max(0, v.A_AAT_D
                               - Min(v.A_AAT_D, r.res_plus - consume_andel_D)),
       rem_andel_K |-> Max(0, v.A_ANDEL_K - consume_andel_K),
       rem_aat_K |-> Max(0, v.A_AAT_K
                               - Min(v.A_AAT_K, r.res_minus - consume_andel_K))]

\* 2) purchases / fusion, AAT given; 3) sales vs. payout, AAT repaid;
\* 4) impairment; 5) omklass
KoncernBuckets(v, r, m) ==
  LET only_banks == v.other_accts # {} /\ v.other_accts \subseteq BankAccounts
      is_sale == m.rem_andel_K > 0 /\ v.has_sale_pnl
      is_payout_prior_share ==
        /\ v.RES_D = 0 /\ v.RES_K = 0 /\ v.IMP_D0 = 0 /\ v.IMP_K = 0
        /\ only_banks /\ v.bank_debet = m.rem_andel_K
        /\ (v.kw_settlement \/ ~v.kw_sale)
      sale_by_text == m.rem_andel_K > 0 /\ ~v.has_sale_pnl
                      /\ ~is_payout_prior_share /\ v.kw_sale
      settled == m.rem_andel_K > 0 /\ ~v.has_sale_pnl /\ ~sale_by_text
      \* IMP_D is zeroed once tied to a real sale
      IMP_D == IF is_sale THEN 0 ELSE v.IMP_D0
      asset_signals == v.RES_K > 0 \/ v.RES_D > 0 \/ IMP_D > 0 \/ v.IMP_K > 0
  IN  [inkop |-> IF m.rem_andel_D > 0 /\ ~v.is_fusion THEN m.rem_andel_D ELSE 0,
       fusion |-> IF m.rem_andel_D > 0 /\ v.is_fusion THEN m.rem_andel_D ELSE 0,
       aat_lamnad |-> m.rem_aat_D,
       aat_aterbetald |-> m.rem_aat_K,
       fsg |-> IF is_sale \/ sale_by_text THEN m.rem_andel_K ELSE 0,
       resultatandel |-> (r.res_plus - r.res_minus)
                           - (IF settled THEN m.rem_andel_K ELSE 0),
       omklass |-> IF r.A_D_total > 0 /\ r.A_K_total > 0 /\ ~asset_signals
                     THEN r.A_D_total - r.A_K_total ELSE 0,
       arets_nedskr |-> v.IMP_K,
       aterfor_nedskr |-> IF ~v.is_fusion THEN IMP_D ELSE 0,
       aterfor_nedskr_fsg |-> IF is_sale THEN v.IMP_D0 ELSE 0,
       aterfor_nedskr_fusion |-> IF v.is_fusion THEN IMP_D ELSE 0,
       omklass_nedskr |->
         IF /\ v.IMP_D0 > 0 /\ v.IMP_K > 0
            /\ ~(r.A_D_total > 0 \/ r.A_K_total > 0 \/ v.RES_K > 0 \/ v.RES_D > 0)
           THEN v.IMP_D0 - v.IMP_K ELSE 0]

KoncernShared(v, r) == KoncernBuckets(v, r, KoncernRest(v, r))
KoncernSummed(v) == KoncernShared(v, KoncernShare(v))

\* what one voucher adds to the accumulators of the koncern parser
KoncernVoucher(txs, text, S) == KoncernSummed(KoncernSums(txs, text, S))

\* the header text as the koncern parser keeps it: _norm_text of the
\* quoted or the bare text
KoncernText(key) == NormText(text_by_ver[key].words)

KoncernFields ==
  {"inkop", "fusion", "aat_lamnad", "aat_aterbetald", "fsg", "resultatandel",
   "omklass", "arets_nedskr", "aterfor_nedskr", "aterfor_nedskr_fsg",
   "aterfor_nedskr_fusion", "omklass_nedskr"}

\* the accumulators after the voucher loop
KoncernTotals(S) ==
  LET d == {<<key, KoncernVoucher(trans_by_ver[key], KoncernText(key), S)>> : key \in Vouchers}
  IN  [f \in KoncernFields |-> SumOver(d, [r \in d |-> r[2][f]])]

\* an accumulator overwritten by each voucher instead of added to
AccumulateLast(acc, v) == v

\* the += statements of the voucher loop: what one voucher adds to the
\* accumulators
Accumulate(acc, v) == [f \in DOMAIN acc |-> acc[f] + v[f]]

\* the voucher loop, run over the keys of trans_by_ver in the order ord
RECURSIVE KoncernLoop(_, _)
KoncernLoop(ord, S) ==
  IF ord = <<>>
    THEN [f \in KoncernFields |-> 0]
    ELSE Accumulate(KoncernLoop(SubSeq(ord, 1, Len(ord) - 1), S),
                    KoncernVoucher(trans_by_ver[ord[Len(ord)]],
                                   KoncernText(ord[Len(ord)]), S))

\* the note from the openings, the accumulators and the period result
KoncernResult(S, tot, koncern_ib, ack_ib, resultatandel) ==
  [sets |-> S,
   koncern_ib |-> koncern_ib,
   inkop_koncern |-> tot.inkop,
   fusion_koncern |-> tot.fusion,
   aktieagartillskott_lamnad_koncern |-> tot.aat_lamnad,
   aktieagartillskott_aterbetald_koncern |-> tot.aat_aterbetald,
   fsg_koncern |-> tot.fsg,
   resultatandel_koncern |-> resultatandel,
   omklass_koncern |-> tot.omklass,
   koncern_ub |-> koncern_ib + tot.inkop + tot.fusion + tot.aat_lamnad
                    - tot.fsg - tot.aat_aterbetald + resultatandel
                    + tot.omklass,
   ack_nedskr_koncern_ib |-> ack_ib,
   arets_nedskr_koncern |-> tot.arets_nedskr,
   aterfor_nedskr_koncern |-> tot.aterfor_nedskr,
   aterfor_nedskr_fsg_koncern |-> tot.aterfor_nedskr_fsg,
   aterfor_nedskr_fusion_koncern |-> tot.aterfor_nedskr_fusion,
   omklass_nedskr_koncern |-> tot.omklass_nedskr,
   ack_nedskr_koncern_ub |-> ack_ib - tot.arets_nedskr + tot.aterfor_nedskr
                               + tot.aterfor_nedskr_fsg
                               + tot.aterfor_nedskr_fusion
                               + tot.omklass_nedskr]

KoncernSummedUp(S, tot) ==
  KoncernResult(S, tot,
                SumOver(S.andel \cup S.aat, [a \in S.andel \cup S.aat |-> Get(ib, a)]),
                SumOver(S.imp, [a \in S.imp |-> Get(ib, a)]),
                -(Get(res, 8030) + Get(res, 8240)) + tot.resultatandel)

\* parse_koncern_k2_from_sie_text, from the account sets on
KoncernNote(S) == KoncernSummedUp(S, KoncernTotals(S))


(***************************************************************************)
(* bygg_k2_parser.                                                         *)
(***************************************************************************)
BASE_BUILDING_ASSETS ==
  (1110..1117) \cup (1130..1139) \cup (1140..1149) \cup (1150..1157)
    \cup (1180..1189)
BASE_ACC_DEP_BYGG == {1119, 1159}
BASE_ACC_IMP_BYGG == {1158}
UPSKR_FOND == 2085
BYGG_DISPOSAL_PL == {3972, 7972}
BYGG_DEPR_COST == {7820, 7821, 7824, 7829}
BYGG_IMPAIR_COST == 7720
BYGG_IMPAIR_REV == 7770
SRU_BYGG == 7214

belongs_to_bygg(acct) ==
  LET in_bygg_range == acct \in BASE_BUILDING_ASSETS \cup BASE_ACC_DEP_BYGG
                                  \cup BASE_ACC_IMP_BYGG
  IN  IF acct \notin DOMAIN sru_codes THEN in_bygg_range
      ELSE sru_codes[acct] = SRU_BYGG

\* the accounts the SRU codes bring in, by the role their last digit gives
ByggSets ==
  LET extra == {a \in DOMAIN sru_codes :
                  /\ belongs_to_bygg(a)
                  /\ a \notin BASE_BUILDING_ASSETS \cup BASE_ACC_DEP_BYGG
                                \cup BASE_ACC_IMP_BYGG}
  IN  [asset |-> BASE_BUILDING_ASSETS
                   \cup {a \in extra : a % 10 \notin {8, 9, 4}},
       dep |-> BASE_ACC_DEP_BYGG \cup {a \in extra : a % 10 \in {9, 4}},
       imp |-> BASE_ACC_IMP_BYGG \cup {a \in extra : a % 10 = 8}]

\* get_balance('IB', accounts): every matching line is added
get_balance(accounts) ==
  LET hit == DOMAIN ib_total \cap accounts
  IN  SumOver(hit, [a \in hit |-> ib_total[a]])

\* any((a in S and amt > 0) for a, amt in txs)
AnyDebit(txs, S) == \E i \in 1..Len(txs) : txs[i][1] \in S /\ txs[i][2] > 0
AnyCredit(txs, S) == \E i \in 1..Len(txs) : txs[i][1] \in S /\ txs[i][2] < 0

\* the sums and flags of one voucher
ByggSums(txs, S) ==
  [A_D |-> Debit(txs, S.asset),
   A_K |-> Credit(txs, S.asset),
   F2085_D |-> Debit(txs, {UPSKR_FOND}),
   F2085_K |-> Credit(txs, {UPSKR_FOND}),
   DEP_D |-> Debit(txs, S.dep),
   DEP_K |-> Credit(txs, S.dep),
   IMP_D |-> Debit(txs, S.imp),
   IMP_K |-> Credit(txs, S.imp),
   has_PL_disposal |-> Posted(txs) \cap BYGG_DISPOSAL_PL # {},
   has_depr_cost |-> AnyDebit(txs, BYGG_DEPR_COST),
   has_imp_cost |-> AnyDebit(txs, {BYGG_IMPAIR_COST}),
   has_imp_rev |-> AnyCredit(txs, {BYGG_IMPAIR_REV}),
   imp_cost |-> Debit(txs, {BYGG_IMPAIR_COST})]

\* the whole debit on asset accounts booked as purchase, the revaluation
\* part included
ByggBucketsNoSplit(v) ==
  LET is_disposal == v.A_K > 0 /\ (v.DEP_D > 0 \/ v.has_PL_disposal \/ v.F2085_D > 0)
      uppskr_amount == Min(v.A_D, v.F2085_K)
      signals == \/ (v.F2085_D + v.F2085_K + v.DEP_D + v.DEP_K + v.IMP_D + v.IMP_K) > 0
                 \/ v.has_PL_disposal \/ v.has_depr_cost \/ v.has_imp_cost
                 \/ v.has_imp_rev
  IN  [fsg |-> IF is_disposal THEN v.A_K ELSE 0,
       aterfor_avskr_fsg |-> IF is_disposal THEN v.DEP_D ELSE 0,
       aterfor_uppskr_fsg |-> IF is_disposal THEN v.F2085_D ELSE 0,
       aterfor_nedskr_fsg |-> IF is_disposal THEN v.IMP_D ELSE 0,
       uppskr |-> uppskr_amount,
       inkop |-> v.A_D,
       avskr_uppskr |-> IF v.DEP_K > 0 /\ v.F2085_D > 0
                          THEN Min(v.DEP_K, v.F2085_D) ELSE 0,
       avskr |-> IF v.DEP_K > 0 /\ v.has_depr_cost /\ v.F2085_D = 0
                   THEN v.DEP_K ELSE 0,
       nedskr |-> IF v.has_imp_cost /\ v.IMP_K > 0 THEN v.imp_cost ELSE 0,
       aterfor_nedskr |-> IF v.has_imp_rev /\ v.IMP_D > 0 /\ v.A_K = 0
                            THEN v.IMP_D ELSE 0,
       omklass |-> IF v.A_D > 0 /\ v.A_K > 0 /\ ~signals THEN v.A_D - v.A_K ELSE 0]

ByggBuckets(v) ==
  LET is_disposal == v.A_K > 0 /\ (v.DEP_D > 0 \/ v.has_PL_disposal \/ v.F2085_D > 0)
      uppskr_amount == Min(v.A_D, v.F2085_K)
      signals == \/ (v.F2085_D + v.F2085_K + v.DEP_D + v.DEP_K + v.IMP_D + v.IMP_K) > 0
                 \/ v.has_PL_disposal \/ v.has_depr_cost \/ v.has_imp_cost
                 \/ v.has_imp_rev
  IN  [fsg |-> IF is_disposal THEN v.A_K ELSE 0,
       aterfor_avskr_fsg |-> IF is_disposal THEN v.DEP_D ELSE 0,
       aterfor_uppskr_fsg |-> IF is_disposal THEN v.F2085_D ELSE 0,
       aterfor_nedskr_fsg |-> IF is_disposal THEN v.IMP_D ELSE 0,
       uppskr |-> uppskr_amount,
       inkop |-> Max(0, v.A_D - uppskr_amount),
       avskr_uppskr |-> IF v.DEP_K > 0 /\ v.F2085_D > 0
                          THEN Min(v.DEP_K, v.F2085_D) ELSE 0,
       avskr |-> IF v.DEP_K > 0 /\ v.has_depr_cost /\ v.F2085_D = 0
                   THEN v.DEP_K ELSE 0,
       nedskr |-> IF v.has_imp_cost /\ v.IMP_K > 0 THEN v.imp_cost ELSE 0,
       aterfor_nedskr |-> IF v.has_imp_rev /\ v.IMP_D > 0 /\ v.A_K = 0
                            THEN v.IMP_D ELSE 0,
       omklass |-> IF v.A_D > 0 /\ v.A_K > 0 /\ ~signals THEN v.A_D - v.A_K ELSE 0]

\* what one voucher adds to the accumulators of the bygg parser
ByggVoucher(txs, S) == ByggBuckets(ByggSums(txs, S))

ByggFields ==
  {"fsg", "aterfor_avskr_fsg", "aterfor_uppskr_fsg", "aterfor_nedskr_fsg",
   "uppskr", "inkop", "avskr_uppskr", "avskr", "nedskr", "aterfor_nedskr",
   "omklass"}

\* the accumulators after the voucher loop
ByggTotals(S) ==
  LET d == {<<key, ByggVoucher(trans_by_ver[key], S)>> : key \in Vouchers}
  IN  [f \in ByggFields |-> SumOver(d, [r \in d |-> r[2][f]])]

\* the note from the openings and the accumulators
ByggResult(S, tot, bygg_ib, ack_avskr_ib, ack_nedskr_ib, ack_uppskr_ib) ==
  [sets |-> S,
   bygg_ib |-> bygg_ib,
   arets_inkop_bygg |-> tot.inkop,
   arets_fsg_bygg |-> tot.fsg,
   arets_omklass_bygg |-> tot.omklass,
   bygg_ub |-> bygg_ib + tot.inkop - tot.fsg + tot.omklass,
   ack_avskr_bygg_ib |-> ack_avskr_ib,
   arets_avskr_bygg |-> tot.avskr,
   aterfor_avskr_fsg_bygg |-> tot.aterfor_avskr_fsg,
   ack_avskr_bygg_ub |-> ack_avskr_ib + tot.aterfor_avskr_fsg - tot.avskr,
   ack_uppskr_bygg_ib |-> ack_uppskr_ib,
   arets_uppskr_bygg |-> tot.uppskr,
   arets_avskr_uppskr_bygg |-> tot.avskr_uppskr,
   aterfor_uppskr_fsg_bygg |-> tot.aterfor_uppskr_fsg,
   ack_uppskr_bygg_ub |-> ack_uppskr_ib + tot.uppskr - tot.avskr_uppskr
                            - tot.aterfor_uppskr_fsg,
   ack_nedskr_bygg_ib |-> ack_nedskr_ib,
   arets_nedskr_bygg |-> tot.nedskr,
   aterfor_nedskr_bygg |-> tot.aterfor_nedskr,
   aterfor_nedskr_fsg_bygg |-> tot.aterfor_nedskr_fsg,
   ack_nedskr_bygg_ub |-> ack_nedskr_ib + tot.aterfor_nedskr_fsg
                            + tot.aterfor_nedskr - tot.nedskr]

ByggWith(S) ==
  ByggResult(S, ByggTotals(S), get_balance(S.asset), get_balance(S.dep),
             get_balance(S.imp), get_balance({UPSKR_FOND}))

\* parse_bygg_k2_from_sie_text
ByggNote == ByggWith(ByggSets)

(***************************************************************************)
(* maskiner_k2_parser.                                                     *)
(***************************************************************************)
MASK_ASSETS == 1210..1217
ACC_DEP_MASK == {1219}
ACC_IMP_MASK == {1218}
MASK_DISPOSAL_PL == {3973, 7973}
MASK_DEPR_COST == {7830, 7831}
MASK_IMPAIR_COST == 7730
MASK_IMPAIR_REV == 7780

\* the sums and flags of one voucher
MaskinerSums(txs) ==
  [A_D |-> Debit(txs, MASK_ASSETS),
   A_K |-> Credit(txs, MASK_ASSETS),
   DEP_D |-> Debit(txs, ACC_DEP_MASK),
   DEP_K |-> Credit(txs, ACC_DEP_MASK),
   IMP_D |-> Debit(txs, ACC_IMP_MASK),
   IMP_K |-> Credit(txs, ACC_IMP_MASK),
   has_PL_disposal |-> Posted(txs) \cap MASK_DISPOSAL_PL # {},
   has_depr_cost |-> AnyDebit(txs, MASK_DEPR_COST),
   has_imp_cost |-> AnyDebit(txs, {MASK_IMPAIR_COST}),
   has_imp_rev |-> AnyCredit(txs, {MASK_IMPAIR_REV}),
   imp_cost |-> Debit(txs, {MASK_IMPAIR_COST})]

MaskinerBuckets(v) ==
  LET is_disposal == v.A_K > 0 /\ (v.DEP_D > 0 \/ v.has_PL_disposal)
      signals == \/ (v.DEP_D + v.DEP_K + v.IMP_D + v.IMP_K) > 0
                 \/ v.has_PL_disposal \/ v.has_depr_cost \/ v.has_imp_cost
                 \/ v.has_imp_rev
  IN  [fsg |-> IF is_disposal THEN v.A_K ELSE 0,
       aterfor_avskr_fsg |-> IF is_disposal THEN v.DEP_D ELSE 0,
       aterfor_nedskr_fsg |-> IF is_disposal THEN v.IMP_D ELSE 0,
       inkop |-> v.A_D,
       avskr |-> IF v.DEP_K > 0 /\ v.has_depr_cost THEN v.DEP_K ELSE 0,
       nedskr |-> IF v.has_imp_cost /\ v.IMP_K > 0 THEN v.imp_cost ELSE 0,
       aterfor_nedskr |-> IF v.has_imp_rev /\ v.IMP_D > 0 /\ v.A_K = 0
                            THEN v.IMP_D ELSE 0,
       omklass |-> IF v.A_D > 0 /\ v.A_K > 0 /\ ~signals THEN v.A_D - v.A_K ELSE 0]

\* what one voucher adds to the accumulators of the maskiner parser
MaskinerVoucher(txs) == MaskinerBuckets(MaskinerSums(txs))

MaskinerFields ==
  {"fsg", "aterfor_avskr_fsg", "aterfor_nedskr_fsg", "inkop", "avskr",
   "nedskr", "aterfor_nedskr", "omklass"}

\* the accumulators after the voucher loop
MaskinerTotals ==
  LET d == {<<key, MaskinerVoucher(trans_by_ver[key])>> : key \in Vouchers}
  IN  [f \in MaskinerFields |-> SumOver(d, [r \in d |-> r[2][f]])]

\* the note from the openings and the accumulators
MaskinerResult(tot, maskiner_ib, ack_avskr_ib, ack_nedskr_ib) ==
  [assets |-> MASK_ASSETS,
   maskiner_ib |-> maskiner_ib,
   arets_inkop_maskiner |-> tot.inkop,
   arets_fsg_maskiner |-> tot.fsg,
   arets_omklass_maskiner |-> tot.omklass,
   maskiner_ub |-> maskiner_ib + tot.inkop - tot.fsg + tot.omklass,
   ack_avskr_maskiner_ib |-> ack_avskr_ib,
   arets_avskr_maskiner |-> tot.avskr,
   aterfor_avskr_fsg_maskiner |-> tot.aterfor_avskr_fsg,
   ack_avskr_maskiner_ub |-> ack_avskr_ib + tot.aterfor_avskr_fsg - tot.avskr,
   ack_nedskr_maskiner_ib |-> ack_nedskr_ib,
   arets_nedskr_maskiner |-> tot.nedskr,
   aterfor_nedskr_maskiner |-> tot.aterfor_nedskr,
   aterfor_nedskr_fsg_maskiner |-> tot.aterfor_nedskr_fsg,
   ack_nedskr_maskiner_ub |-> ack_nedskr_ib + tot.aterfor_nedskr_fsg
                                + tot.aterfor_nedskr - tot.nedskr]

\* parse_maskiner_k2_from_sie_text
MaskinerNote ==
  MaskinerResult(MaskinerTotals, get_balance(MASK_ASSETS),
                 get_balance(ACC_DEP_MASK), get_balance(ACC_IMP_MASK))


(***************************************************************************)
(* intresseftg_k2_parser.                                                  *)
(***************************************************************************)
RANGE_133X == 1330..1339

\* discover_equity_account_map_for_range_133x
\* ("varde ned" and "v neds" span two words; no name of the model holds them)
IntresseSets ==
  LET default_accimp == {1332, 1334, 1337, 1338}
      named == DOMAIN konto_name \cap RANGE_133X
      nm(a) == NormText(NameOf(a))
      is_contrib(a) == HasKw(nm(a), {"aktieagartillskott", "aktieagar",
                                     "agartillskott", "agartill"})
      is_imp_txt(a) == HasKw(nm(a), {"ack", "ackumuler", "nedskr", "vardened"})
      is_imp_sru(a) == a \in DOMAIN sru_codes
                         /\ sru_codes[a] >= 7200 /\ sru_codes[a] < 7300
      CONTRIB == {a \in named : is_contrib(a)}
      ACC_IMP == {a \in RANGE_133X \ named : a \in default_accimp}
                   \cup {a \in named \ CONTRIB :
                           is_imp_txt(a) \/ is_imp_sru(a) \/ a \in default_accimp}
  IN  [ASSET |-> (RANGE_133X \ (ACC_IMP \cup CONTRIB)) \ CONTRIB,
       ACC_IMP |-> ACC_IMP,
       CONTRIB |-> CONTRIB]

INTRESSE_RES_SHARE == 8240

\* the sums and flags of one voucher; text is the lower-cased header text
IntresseSums(txs, text, S) ==
  [A_D |-> Debit(txs, S.ASSET),
   A_K |-> Credit(txs, S.ASSET),
   C_D |-> Debit(txs, S.CONTRIB),
   C_K |-> Credit(txs, S.CONTRIB),
   IMP_D0 |-> Debit(txs, S.ACC_IMP),
   IMP_K |-> Credit(txs, S.ACC_IMP),
   RES_K |-> Credit(txs, {INTRESSE_RES_SHARE}),
   RES_D |-> Debit(txs, {INTRESSE_RES_SHARE}),
   is_fusion |-> HasKw(text, {"fusion"})]

\* disposals accumulated with the sign the group-shares parser gives them
IntresseBucketsSaleAdded(v) ==
  LET res_plus == IF v.A_D > 0 /\ v.RES_K > 0 THEN Min(v.A_D, v.RES_K) ELSE 0
      res_minus == IF v.A_K > 0 /\ v.RES_D > 0 THEN Min(v.A_K, v.RES_D) ELSE 0
      inc_amount == Max(0, v.A_D - res_plus)
      sale_amount == (v.A_K - res_minus) + v.C_K
      \* IMP_D is zeroed once tied to a sale
      IMP_D == IF sale_amount > 0 THEN 0 ELSE v.IMP_D0
      asset_signals == v.RES_K > 0 \/ v.RES_D > 0 \/ IMP_D > 0 \/ v.IMP_K > 0
                         \/ v.C_D > 0 \/ v.C_K > 0
  IN  [inkop |-> IF ~v.is_fusion THEN inc_amount ELSE 0,
       fusion |-> IF v.is_fusion THEN inc_amount ELSE 0,
       aat_lamnad |-> v.C_D,
       fsg |-> IF sale_amount > 0 THEN sale_amount ELSE 0,
       aat_aterbetald |-> IF sale_amount <= 0 /\ v.C_K > 0 THEN -v.C_K ELSE 0,
       resultatandel |-> res_plus - res_minus,
       omklass |-> IF v.A_D > 0 /\ v.A_K > 0 /\ ~asset_signals
                     THEN v.A_D - v.A_K ELSE 0,
       arets_nedskr |-> v.IMP_K,
       aterfor_nedskr |-> IF ~v.is_fusion THEN IMP_D ELSE 0,
       aterfor_nedskr_fsg |-> IF sale_amount > 0 THEN v.IMP_D0 ELSE 0,
       aterfor_nedskr_fusion |-> IF v.is_fusion THEN IMP_D ELSE 0,
       omklass_nedskr |->
         IF /\ v.IMP_D0 > 0 /\ v.IMP_K > 0
            /\ ~(v.A_D > 0 \/ v.A_K > 0 \/ v.RES_K > 0 \/ v.RES_D > 0
                   \/ v.C_D > 0 \/ v.C_K > 0)
           THEN IMP_D - v.IMP_K ELSE 0]

IntresseBuckets(v) ==
  LET res_plus == IF v.A_D > 0 /\ v.RES_K > 0 THEN Min(v.A_D, v.RES_K) ELSE 0
      res_minus == IF v.A_K > 0 /\ v.RES_D > 0 THEN Min(v.A_K, v.RES_D) ELSE 0
      inc_amount == Max(0, v.A_D - res_plus)
      sale_amount == (v.A_K - res_minus) + v.C_K
      \* IMP_D is zeroed once tied to a sale
      IMP_D == IF sale_amount > 0 THEN 0 ELSE v.IMP_D0
      asset_signals == v.RES_K > 0 \/ v.RES_D > 0 \/ IMP_D > 0 \/ v.IMP_K > 0
                         \/ v.C_D > 0 \/ v.C_K > 0
  IN  [inkop |-> IF ~v.is_fusion THEN inc_amount ELSE 0,
       fusion |-> IF v.is_fusion THEN inc_amount ELSE 0,
       aat_lamnad |-> v.C_D,
       fsg |-> IF sale_amount > 0 THEN -sale_amount ELSE 0,
       aat_aterbetald |-> IF sale_amount <= 0 /\ v.C_K > 0 THEN -v.C_K ELSE 0,
       resultatandel |-> res_plus - res_minus,
       omklass |-> IF v.A_D > 0 /\ v.A_K > 0 /\ ~asset_signals
                     THEN v.A_D - v.A_K ELSE 0,
       arets_nedskr |-> v.IMP_K,
       aterfor_nedskr |-> IF ~v.is_fusion THEN IMP_D ELSE 0,
       aterfor_nedskr_fsg |-> IF sale_amount > 0 THEN v.IMP_D0 ELSE 0,
       aterfor_nedskr_fusion |-> IF v.is_fusion THEN IMP_D ELSE 0,
       omklass_nedskr |->
         IF /\ v.IMP_D0 > 0 /\ v.IMP_K > 0
            /\ ~(v.A_D > 0 \/ v.A_K > 0 \/ v.RES_K > 0 \/ v.RES_D > 0
                   \/ v.C_D > 0 \/ v.C_K > 0)
           THEN IMP_D - v.IMP_K ELSE 0]

\* what one voucher adds to the accumulators of the intresseftg parser
IntresseVoucher(txs, text, S) == IntresseBuckets(IntresseSums(txs, text, S))

\* _parse_vouchers keeps the quoted header text only, lower-cased
IntresseText(key) ==
  IF text_by_ver[key].quoted THEN LowerText(text_by_ver[key].words) ELSE <<>>

\* a voucher loop that stops after the first voucher of the order
RECURSIVE IntresseLoopFirstOnly(_, _)
IntresseLoopFirstOnly(ord, S) ==
  IF ord = <<>>
    THEN [f \in KoncernFields |-> 0]
    ELSE IntresseVoucher(trans_by_ver[ord[1]], IntresseText(ord[1]), S)

\* the voucher loop, run over the keys of trans_by_ver in the order ord
RECURSIVE IntresseLoop(_, _)
IntresseLoop(ord, S) ==
  IF ord = <<>>
    THEN [f \in KoncernFields |-> 0]
    ELSE Accumulate(IntresseLoop(SubSeq(ord, 1, Len(ord) - 1), S),
                    IntresseVoucher(trans_by_ver[ord[Len(ord)]],
                                    IntresseText(ord[Len(ord)]), S))

\* the accumulators after the voucher loop
IntresseTotals(S) ==
  LET d == {<<key, IntresseVoucher(trans_by_ver[key], IntresseText(key), S)>> : key \in Vouchers}
  IN  [f \in KoncernFields |-> SumOver(d, [r \in d |-> r[2][f]])]

\* the note from the openings and the accumulators
IntresseResult(S, tot, intresseftg_ib, ack_ib) ==
  [sets |-> S,
   intresseftg_ib |-> intresseftg_ib,
   inkop_intresseftg |-> tot.inkop,
   fusion_intresseftg |-> tot.fusion,
   fsg_intresseftg |-> tot.fsg,
   aktieagartillskott_lamnad_intresseftg |-> tot.aat_lamnad,
   aktieagartillskott_aterbetald_intresseftg |-> tot.aat_aterbetald,
   resultatandel_intresseftg |-> tot.resultatandel,
   omklass_intresseftg |-> tot.omklass,
   intresseftg_ub |-> intresseftg_ib + tot.inkop + tot.fusion + tot.fsg
                        + tot.aat_lamnad + tot.aat_aterbetald
                        + tot.resultatandel + tot.omklass,
   ack_nedskr_intresseftg_ib |-> ack_ib,
   arets_nedskr_intresseftg |-> tot.arets_nedskr,
   aterfor_nedskr_intresseftg |-> tot.aterfor_nedskr,
   aterfor_nedskr_fsg_intresseftg |-> tot.aterfor_nedskr_fsg,
   aterfor_nedskr_fusion_intresseftg |-> tot.aterfor_nedskr_fusion,
   omklass_nedskr_intresseftg |-> tot.omklass_nedskr,
   ack_nedskr_intresseftg_ub |-> ack_ib + tot.aterfor_nedskr_fsg
                                   + tot.aterfor_nedskr_fusion
                                   + tot.aterfor_nedskr
                                   + tot.omklass_nedskr
                                   - tot.arets_nedskr]

IntresseWith(S) ==
  IntresseResult(S, IntresseTotals(S), get_balance(S.ASSET \cup S.CONTRIB),
                 get_balance(S.ACC_IMP))

\* parse_intresseftg_k2_from_sie_text
IntresseNote == IntresseWith(IntresseSets)


(***************************************************************************)
(* preclass_reclassifier: company names, alias patterns, groups, BR hints. *)
(***************************************************************************)
\* number of characters of a word, counted up to three
CharLen(w) ==
  CASE w = "i" -> 1
    [] w \in {"AB", "ab"} -> 2
    [] OTHER -> 3

GENERIC_STOP ==
  {"andel", "andelar", "aktie", "aktier", "aktiebolag", "aktiebolaget",
   "koncern", "koncernföretag", "koncernforetag", "dotterbolag",
   "intresseföretag", "intresseforetag", "gemensamt", "styrda", "företag",
   "foretag", "fordran", "fordringar", "långfristiga", "langfristiga",
   "kortfristiga", "övriga", "ovriga", "hos", "i", "till", "mm", "mfl"}

\* the corporate forms of the explicit company pattern (case matters there)
SuffixWords == {"AB", "HB", "KB", "Kommanditbolag"}
\* LEGAL_SUFFIX_RE, ignoring case
LegalSuffix(w) == Lower(w) \in {"ab", "hb", "kb", "kommanditbolag"}

\* the leading "Andelar i" / "Fordringar hos" is dropped
StripLead(text) ==
  IF /\ Len(text) >= 2
     /\ Lower(text[1]) \in {"andelar", "fordringar"}
     /\ Lower(text[2]) \in {"i", "hos"}
    THEN SubSeq(text, 3, Len(text)) ELSE text

\* a leading "långfristiga", "kortfristiga" or "övriga" is dropped
StripTerm(t1) ==
  IF /\ Len(t1) >= 1
     /\ Lower(t1[1]) \in {"långfristiga", "langfristiga",
                          "kortfristiga", "övriga", "ovriga"}
    THEN Tail(t1) ELSE t1

\* the company names in a stripped text: the explicit pattern, from the
\* first capital to the last corporate form, or else the fallback, runs of
\* capitalised tokens of three characters or more
SpansIn(t) ==
  LET starts == {i \in 1..Len(t) :
                   Capitalised(t[i]) /\ \E j \in (i + 1)..Len(t) : t[j] \in SuffixWords}
      explicit ==
        IF starts = {} THEN {}
        ELSE LET i == CHOOSE x \in starts : \A y \in starts : x <= y
                 j == CHOOSE x \in (i + 1)..Len(t) :
                        /\ t[x] \in SuffixWords
                        /\ \A y \in (x + 1)..Len(t) : t[y] \notin SuffixWords
             IN  {SubSeq(t, i, j)}
      tok(i) == Capitalised(t[i]) /\ CharLen(t[i]) >= 3
      runs == {<<i, j>> \in (1..Len(t)) \X (1..Len(t)) :
                 /\ i < j
                 /\ \A x \in i..j : tok(x)
                 /\ (i = 1 \/ ~tok(i - 1))
                 /\ (j = Len(t) \/ ~tok(j + 1))}
      fallback ==
        {SubSeq(t, r[1], r[2]) : r \in
           {r \in runs : \E x \in r[1]..r[2] : Fold(Lower(t[x])) \notin GENERIC_STOP}}
  IN  IF starts # {} THEN explicit ELSE fallback

\* the company-name-shaped parts of an account name (names of the model
\* have at most six words)
company_like_spans(text) == SpansIn(StripTerm(StripLead(text)))

\* _alias_pack: the tokens of the regular expression built for one name
\* (the significant folded tokens, or the whole folded base name when
\* there is none)
alias_pack(full_name) ==
  LET base == SelectSeq(full_name, LAMBDA w : ~LegalSuffix(w))
      toks_fold == NormText(base)
      sig_fold == SelectSeq(toks_fold,
                            LAMBDA w : w \notin GENERIC_STOP /\ CharLen(w) >= 3)
  IN  IF sig_fold # <<>> THEN sig_fold ELSE toks_fold

\* rx.search(hay) for one alias pattern: the tokens in a row, at word
\* boundaries; a pattern without tokens matches at any word boundary
PatMatches(p, text) ==
  IF p = <<>> THEN text # <<>>
  ELSE Occurs(p, LowerText(text)) \/ Occurs(p, NormText(text))

Groups == <<"koncern", "intresse", "ovriga">>

\* harvest_company_names_from_1310_1339: alias patterns per group
harvested(g) ==
  LET bucket(a) == IF a \in 1310..1319 THEN "koncern"
                   ELSE IF a \in 1330..1335 THEN "intresse" ELSE "ovriga"
      accts == {a \in DOMAIN konto_name \cap (1310..1339) : bucket(a) = g}
  IN  UNION {{alias_pack(nm) : nm \in company_like_spans(konto_name[a])} : a \in accts}

\* merge_company_sources: external subsidiary names go to "koncern"
MergedPatterns(g) ==
  harvested(g) \cup
    (IF g = "koncern" THEN {alias_pack(nm) : nm \in ExternalNames(ledger)} ELSE {})

\* the merged regular expression of a group searched in a text.  A group
\* with nothing harvested is unified to "(?!x)", which matches wherever
\* the next character is not "x"; it stays in the merged alternation.
GroupMatches(g, text) ==
  \/ harvested(g) = {}
  \/ \E p \in MergedPatterns(g) : PatMatches(p, text)

\* match_group: the first group whose merged pattern is found
match_group(text) ==
  IF GroupMatches("koncern", text) THEN "koncern"
  ELSE IF GroupMatches("intresse", text) THEN "intresse"
  ELSE IF GroupMatches("ovriga", text) THEN "ovriga"
  ELSE "none"

AAT_PAT(nm) ==
  HasWord(LowerText(nm), {"aktieägartillskott", "aktieagartillskott",
                          "villkorat", "ovillkorat"})

HintKoncernShares == "Andelar i koncernföretag"
HintIntresseShares == "Andelar i intresseföretag och gemensamt styrda företag"
HintOvrigaShares == "Ägarintressen i övriga företag"
NoHint == ""

br_hint_for_account(acct, nm, group) ==
  LET low == LowerText(nm)
      is_andel == HasWord(low, {"andel", "andelar", "aktie", "aktier"})
                    \/ acct \in 1310..1319 \/ acct \in 1330..1339
      is_fordr == HasWord(low, {"fordran", "fordringar"}) \/ acct \in 1600..1799
      is_skuld == HasWord(low, {"skuld", "skulder"}) \/ acct \in 2800..2999
      is_kort == (\E i \in 1..Len(low) : "kortfrist" \in Prefixes(low[i]))
                   \/ acct \in 1500..1999 \/ acct \in 2800..2999
      fallback == IF acct \in 1310..1319 THEN HintKoncernShares
                  ELSE IF acct \in 1330..1335 THEN HintIntresseShares
                  ELSE IF acct \in 1336..1339 THEN HintOvrigaShares
                  ELSE NoHint
  IN  IF group = "koncern" /\ (is_andel \/ is_fordr \/ is_skuld) THEN
        IF is_andel THEN HintKoncernShares
        ELSE IF is_fordr THEN
          (IF is_kort THEN "Fordringar hos koncernföretag (kortfristiga)"
           ELSE "Långfristiga fordringar hos koncernföretag")
        ELSE (IF is_kort THEN "Kortfristiga skulder till koncernföretag"
              ELSE "Långfristiga skulder till koncernföretag")
      ELSE IF group = "intresse" /\ (is_andel \/ is_fordr \/ is_skuld) THEN
        IF is_andel THEN HintIntresseShares
        ELSE IF is_fordr THEN
          (IF is_kort
             THEN "Kortfristiga fordringar hos intresseföretag och gemensamt styrda företag"
           ELSE "Långfristiga fordringar hos intresseföretag och gemensamt styrda företag")
        ELSE (IF is_kort
                THEN "Kortfristiga skulder till intresseföretag och gemensamt styrda företag"
              ELSE "Långfristiga skulder till intresseföretag och gemensamt styrda företag")
      ELSE IF group = "ovriga" /\ (is_andel \/ is_fordr \/ is_skuld) THEN
        IF is_andel THEN HintOvrigaShares
        ELSE IF is_fordr THEN
          (IF is_kort
             THEN "Kortfristiga fordringar hos övriga företag som det finns ett ägarintresse i"
           ELSE "Långfristiga fordringar hos övriga företag som det finns ett ägarintresse i")
        ELSE (IF is_kort
                THEN "Kortfristiga skulder till övriga företag som det finns ett ägarintresse i"
              ELSE "Långfristiga skulder till övriga företag som det finns ett ägarintresse i")
      ELSE fallback

\* the accounts of the used table: some balance of year 0 or -1 is not zero
Used ==
  {a \in BalAccounts(ledger) :
     \E yr \in {0, -1}, tag \in {"IB", "UB", "RES"} : balances[<<a, yr, tag>>] # 0}

\* run_preclass: the group of every used account
PreclassGroups == [a \in Used |-> match_group(NameOf(a))]

\* run_preclass: the BR hint of every used account
PreclassHints(grp) ==
  [a \in Used |-> br_hint_for_account(a, NameOf(a), grp[a])]

\* run_preclass: the result, with the account sets handed to the koncern
\* parser
PreclassSets(grp, hint) ==
  [group |-> grp,
   hint |-> hint,
   account_sets |->
     [andel |-> {a \in Used : hint[a] = HintKoncernShares},
      aat |-> {a \in DOMAIN konto_name \cap (1310..1339) : AAT_PAT(konto_name[a])},
      imp |-> {a \in DOMAIN konto_name :
                 a = 1318 \/ (a \in 1310..1319 /\ ImpPat(konto_name[a]))}]]

PreclassHinted(grp) == PreclassSets(grp, PreclassHints(grp))

\* run_preclass, from the used table on
RunPreclass == PreclassHinted(PreclassGroups)


(***************************************************************************)
(* account_preclass/preclass: aliases and contextual_target.  The strings  *)
(* simplify() makes are kept as their sequence of words.                   *)
(***************************************************************************)
simplify(ws) == NormText(ws)

\* characters of a simplified string, counted up to three
SimpleLen(x) == Min(3, SeqSum([i \in 1..Len(x) |-> CharLen(x[i])]))

make_alias_variants(name) ==
  LET base == SelectSeq(name,
                LAMBDA w : Lower(w) \notin {"aktiebolaget", "ab", "kb", "hb",
                                            "ltd", "oy", "as"})
  IN  {v \in {simplify(name), simplify(base)} : v # <<>>}

KONCERN_SYNONYMS ==
  {"koncern", "koncernföretag", "koncernbolag", "gruppföretag", "gruppbolag",
   "dotter", "dotterbolag", "dotterföretag", "moder", "moderbolag",
   "moderföretag"}
\* ("gemensamt styrda" and "joint venture" span two words)
INTRESSE_SYNONYMS == {"intresseföretag", "intresse"}
AAT_WORDS == {"aktieägartillskott", "aktieagartillskott", "villkorat", "ovillkorat"}

\* aliases too weak to keep: fewer than three characters (no alias of the
\* model is a number)
prune(s) == {x \in s : SimpleLen(x) >= 3}

\* extract_aliases: the koncern and intresse alias sets of the ledger
extract_aliases ==
  LET low(a) == LowerText(konto_name[a])
      variants(S) == UNION {make_alias_variants(konto_name[a]) : a \in S}
      named == DOMAIN konto_name
  IN  [koncern |-> prune(variants({a \in named : a \in 1310..1321})
                           \cup variants({a \in named : HasKw(low(a), KONCERN_SYNONYMS)})),
       intresse |-> prune(variants({a \in named : a \in 1330..1349})
                            \cup variants({a \in named : HasKw(low(a), INTRESSE_SYNONYMS)}))]

\* aliases_from_scraper: the variants of the subsidiary names
aliases_from_scraper ==
  UNION {make_alias_variants(nm) : nm \in ExternalNames(ledger)}

\* the keys of ROW_KEYS; rows is the set of keys the BR table has a row for
ROW_KEYS ==
  {"koncern_shares", "koncern_fordr_lt", "koncern_fordr_st",
   "koncern_skulder_lt", "koncern_skulder_st", "intresse_shares",
   "intresse_fordr_lt", "intresse_fordr_st", "intresse_skulder_lt",
   "intresse_skulder_st"}
NoRow == "none"

contextual_target(a_num, name, rows, aliases, extra_koncern) ==
  LET nm_low == LowerText(name)
      nm_s == simplify(name)
      koncern_alias == aliases.koncern \cup {simplify(x) : x \in extra_koncern}
      intresse_alias == aliases.intresse
      in_any(alts) == \E tok \in alts : Occurs(tok, nm_s)
      is_k == in_any(koncern_alias) \/ HasKw(nm_low, KONCERN_SYNONYMS)
      labelled == HasKw(nm_low, {"intresseföretag"})
      is_i == IF labelled /\ is_k THEN FALSE
              ELSE in_any(intresse_alias) \/ HasKw(nm_low, INTRESSE_SYNONYMS)
      has_aat == HasKw(nm_low, AAT_WORDS)
      fordr == HasKw(nm_low, {"fordr"})
      skuld == HasKw(nm_low, {"skuld"})
      k_fordr == IF a_num \in 1320..1329 THEN "koncern_fordr_lt" ELSE "koncern_fordr_st"
      k_skuld == IF a_num \in 2300..2399 THEN "koncern_skulder_lt" ELSE "koncern_skulder_st"
      i_fordr == IF a_num \in 1340..1349 THEN "intresse_fordr_lt" ELSE "intresse_fordr_st"
      i_skuld == IF a_num \in 2300..2399 THEN "intresse_skulder_lt" ELSE "intresse_skulder_st"
      override == IF skuld THEN "koncern_skulder_st" ELSE k_fordr
  IN  IF is_k /\ (has_aat \/ a_num \in 1310..1329) /\ "koncern_shares" \in rows
        THEN "koncern_shares"
      ELSE IF is_i /\ (has_aat \/ a_num \in 1330..1339) /\ "intresse_shares" \in rows
        THEN "intresse_shares"
      ELSE IF is_k /\ (fordr \/ a_num \in (1320..1329) \cup (1680..1689))
                /\ k_fordr \in rows
        THEN k_fordr
      ELSE IF is_k /\ skuld /\ k_skuld \in rows THEN k_skuld
      ELSE IF is_i /\ (fordr \/ a_num \in 1340..1349) /\ i_fordr \in rows THEN i_fordr
      ELSE IF is_i /\ skuld /\ i_skuld \in rows THEN i_skuld
      ELSE IF labelled /\ is_k /\ override \in rows THEN override
      ELSE NoRow

\* preclassify_accounts: the row of every used account (the BR table has
\* a row for every key)
Preclassify ==
  [a \in Used |->
     contextual_target(a, NameOf(a), ROW_KEYS, extract_aliases, aliases_from_scraper)]


(***************************************************************************)
(* The run: after the last line the notes are computed.                    *)
(***************************************************************************)
NoPreclass == [group |-> <<>>, hint |-> <<>>, account_sets |-> NoSeeds]

\* the results of one run: run_preclass and preclassify_accounts when the
\* ledger kind is given preclassification, then the four K2 note parsers
RunWith(pre) ==
  [done |-> TRUE,
   preclass |-> pre,
   target |-> IF Seeded(ledger) THEN Preclassify ELSE <<>>,
   koncern |-> KoncernNote(KoncernSets(pre.account_sets, ExternalNames(ledger))),
   bygg |-> ByggNote,
   maskiner |-> MaskinerNote,
   intresse |-> IntresseNote]

\* One run over the ledger read so far.  run_preclass sorts its table of
\* used accounts by column; with no used account the table has no columns.
Classify ==
  /\ pc = "read"
  /\ IF Seeded(ledger) /\ Used = {}
       THEN /\ pc' = "KeyError"
            /\ out' = out
       ELSE /\ pc' = "done"
            /\ out' = RunWith(IF Seeded(ledger) THEN RunPreclass ELSE NoPreclass)
  /\ UNCHANGED <<ledger, konto_name, sru_codes, balvars, vervars>>

Next == ReadNext \/ Classify

Spec == Init /\ [][Next]_vars


(***************************************************************************)
(* Properties.                                                             *)
(***************************************************************************)
\* the ledger's value of a balance field, and the net posting on an account
Given(a, yr, tag) ==
  IF a \in BalAccounts(ledger) THEN balances[<<a, yr, tag>>] ELSE 0
PostSum(a) ==
  SumOver(Keys, [key \in Keys |->
    Debit(trans_by_ver[key], {a}) - Credit(trans_by_ver[key], {a})])
\* the closing balance of a set of accounts as the ledger gives it
Closing(S) ==
  LET hit == S \cap BalAccounts(ledger)
  IN  SumOver(hit, [a \in hit |-> Given(a, 0, "UB")])

\* the postings of a voucher sum to zero (double entry)
Balanced(txs) == SeqSum([i \in 1..Len(txs) |-> txs[i][2]]) = 0

\* every voucher balances, every balance sheet account closes at its
\* opening plus its postings, and every result account's period result is
\* the sum of its postings
Consistent ==
  /\ \A key \in Keys : Balanced(trans_by_ver[key])
  /\ \A a \in Accounts(ledger) :
       IF a < 3000
         THEN Given(a, 0, "UB") = Given(a, 0, "IB") + PostSum(a)
         ELSE Given(a, 0, "RES") = PostSum(a)

\* C1: for a ledger whose vouchers are internally consistent, every
\* category's computed closing (opening plus the signed movements) equals
\* the closing balance of the category's accounts as given in the ledger.
C1_RollForwardIdentity ==
  (out.done /\ Consistent) =>
    /\ out.koncern.koncern_ub
         = Closing(out.koncern.sets.andel \cup out.koncern.sets.aat)
    /\ out.koncern.ack_nedskr_koncern_ub = Closing(out.koncern.sets.imp)
    /\ out.intresse.intresseftg_ub
         = Closing(out.intresse.sets.ASSET \cup out.intresse.sets.CONTRIB)
    /\ out.bygg.bygg_ub = Closing(out.bygg.sets.asset)
    /\ out.maskiner.maskiner_ub = Closing(MASK_ASSETS)

\* what one voucher adds, net, to the cost roll-forward of each note
KoncernNet(txs, text, S) ==
  LET v == KoncernVoucher(txs, text, S)
  IN  v.inkop + v.fusion + v.aat_lamnad - v.fsg - v.aat_aterbetald
        + v.resultatandel + v.omklass
ByggNet(txs, S) ==
  LET v == ByggVoucher(txs, S)
  IN  v.inkop + v.uppskr - v.fsg + v.omklass
MaskinerNet(txs) ==
  LET v == MaskinerVoucher(txs)
  IN  v.inkop - v.fsg + v.omklass

\* C2: in every (balanced) voucher each posting on a category's asset
\* accounts is attributed to exactly one movement bucket, so what the
\* voucher adds to the buckets, with their signs, is the debits minus the
\* credits on the asset accounts: nothing is counted twice and nothing is
\* left out.
C2_EachPostingInOneBucket ==
  out.done =>
    \A key \in {k \in Vouchers : Balanced(trans_by_ver[k])} :
      LET txs == trans_by_ver[key]
          KS == out.koncern.sets
          BS == out.bygg.sets
      IN  /\ KoncernNet(txs, KoncernText(key), KS)
               = Debit(txs, KS.andel \cup KS.aat) - Credit(txs, KS.andel \cup KS.aat)
          /\ ByggNet(txs, BS) = Debit(txs, BS.asset) - Credit(txs, BS.asset)
          /\ MaskinerNet(txs) = Debit(txs, MASK_ASSETS) - Credit(txs, MASK_ASSETS)

\* the signal accounts of each note
KoncernSignals(S) == S.imp \cup RES_SHARE_SET \cup SALE_PNL
ByggSignals(S) ==
  S.dep \cup S.imp \cup {UPSKR_FOND} \cup BYGG_DISPOSAL_PL \cup BYGG_DEPR_COST
    \cup {BYGG_IMPAIR_COST, BYGG_IMPAIR_REV}

\* C3: a (balanced) voucher that debits and credits asset accounts of one
\* category and touches no signal account is booked as reclassification
\* only: the net goes to the reclassification bucket, nothing to purchases
\* or disposals.
C3_TransferIsReclassificationOnly ==
  out.done =>
    \A key \in {k \in Vouchers : Balanced(trans_by_ver[k])} :
      LET txs == trans_by_ver[key]
          KS == out.koncern.sets
          BS == out.bygg.sets
          kv == KoncernVoucher(txs, KoncernText(key), KS)
          bv == ByggVoucher(txs, BS)
      IN  /\ ( /\ Debit(txs, KS.andel \cup KS.aat) > 0
               /\ Credit(txs, KS.andel \cup KS.aat) > 0
               /\ Posted(txs) \cap KoncernSignals(KS) = {} )
             => ( /\ kv.inkop = 0 /\ kv.fsg = 0
                  /\ kv.omklass = Debit(txs, KS.andel \cup KS.aat)
                                    - Credit(txs, KS.andel \cup KS.aat) )
          /\ ( /\ Debit(txs, BS.asset) > 0
               /\ Credit(txs, BS.asset) > 0
               /\ Posted(txs) \cap ByggSignals(BS) = {} )
             => ( /\ bv.inkop = 0 /\ bv.fsg = 0
                  /\ bv.omklass = Debit(txs, BS.asset) - Credit(txs, BS.asset) )

\* the account's name holds a receivable keyword / matches a group alias
HasReceivableWord(a) == HasWord(LowerText(NameOf(a)), {"fordran", "fordringar"})
MatchesGroupAlias(a) ==
  \E p \in MergedPatterns("koncern") : PatMatches(p, NameOf(a))

\* C4: an account whose name holds a receivable keyword and matches a
\* group alias is never placed in a share category nor in the share
\* account sets of the group-shares roll-forward, whatever its number and
\* whether or not preclassification sets are supplied.
C4_ReceivableNeverShare ==
  out.done =>
    \A a \in DOMAIN konto_name :
      (HasReceivableWord(a) /\ MatchesGroupAlias(a)) =>
        /\ a \notin out.koncern.sets.andel \cup out.koncern.sets.aat
        /\ a \in DOMAIN out.preclass.hint =>
             out.preclass.hint[a]
               \notin {HintKoncernShares, HintIntresseShares, HintOvrigaShares}
        /\ a \in DOMAIN out.target =>
             out.target[a] \notin {"koncern_shares", "intresse_shares"}

\* C5: every account belongs to at most one category: the share, AAT and
\* impairment sets of the group-shares roll-forward are pairwise disjoint,
\* and no account is counted in both the buildings and the machinery
\* roll-forward.
C5_OneCategoryPerAccount ==
  out.done =>
    LET KS == out.koncern.sets
        BS == out.bygg.sets
    IN  /\ KS.andel \cap KS.aat = {}
        /\ KS.andel \cap KS.imp = {}
        /\ KS.aat \cap KS.imp = {}
        /\ (BS.asset \cup BS.dep \cup BS.imp)
             \cap (MASK_ASSETS \cup ACC_DEP_MASK \cup ACC_IMP_MASK) = {}


\* the account's name holds the associate label
HasAssociateLabel(a) == HasKw(LowerText(NameOf(a)), {"intresseföretag"})

HasDebtOrClaimWord(a) == HasKw(LowerText(NameOf(a)), {"fordr", "skuld"})

\* C6: a used account whose name holds the associate label
\* "intresseföretag" and matches a group alias (and names neither a
\* receivable nor a payable) is finally classified as group shares, by its
\* balance sheet hint and by its balance sheet row.
C6_FinallyGroupShares ==
  out.done =>
    \A a \in DOMAIN out.preclass.hint :
      (HasAssociateLabel(a) /\ MatchesGroupAlias(a)
         /\ ~HasDebtOrClaimWord(a)) =>
        /\ out.preclass.hint[a] = HintKoncernShares
        /\ out.target[a] = "koncern_shares"

\* every movement bucket and opening of the four notes
NoteTotals ==
  LET k == out.koncern
      i == out.intresse
      b == out.bygg
      m == out.maskiner
  IN  {k.koncern_ib, k.inkop_koncern, k.fusion_koncern,
       k.aktieagartillskott_lamnad_koncern,
       k.aktieagartillskott_aterbetald_koncern, k.fsg_koncern,
       k.resultatandel_koncern, k.omklass_koncern, k.koncern_ub,
       k.ack_nedskr_koncern_ib, k.arets_nedskr_koncern,
       k.aterfor_nedskr_koncern, k.aterfor_nedskr_fsg_koncern,
       k.aterfor_nedskr_fusion_koncern, k.omklass_nedskr_koncern,
       k.ack_nedskr_koncern_ub,
       i.intresseftg_ib, i.inkop_intresseftg, i.fusion_intresseftg,
       i.fsg_intresseftg, i.aktieagartillskott_lamnad_intresseftg,
       i.aktieagartillskott_aterbetald_intresseftg,
       i.resultatandel_intresseftg, i.omklass_intresseftg, i.intresseftg_ub,
       i.arets_nedskr_intresseftg, i.aterfor_nedskr_intresseftg,
       b.bygg_ib, b.arets_inkop_bygg, b.arets_fsg_bygg, b.arets_omklass_bygg,
       b.bygg_ub, b.arets_avskr_bygg, b.arets_uppskr_bygg,
       b.arets_nedskr_bygg,
       m.maskiner_ib, m.arets_inkop_maskiner, m.arets_fsg_maskiner,
       m.arets_omklass_maskiner, m.maskiner_ub, m.arets_avskr_maskiner,
       m.arets_nedskr_maskiner}

\* C7: an account whose six balance fields are all zero contributes to no
\* roll-forward total; so when no account of a consistent ledger is used,
\* every opening, closing and movement bucket is zero.
C7_UnusedAccountsContributeNothing ==
  (out.done /\ Consistent /\ Used = {}) => NoteTotals \subseteq {0}

\* C8: two voucher blocks with the same (series, number) are not merged:
\* the postings classified as one voucher all come from one block.
C8_DuplicateVouchersNotMerged ==
  out.done => \A key \in Vouchers : blocks[key] <= 1

\* the opening of a set of accounts, each account at the last #IB given
OpeningLast(S) ==
  LET hit == S \cap BalAccounts(ledger)
  IN  SumOver(hit, [a \in hit |-> Given(a, 0, "IB")])

\* C9: when a balance tag occurs more than once for an account and year,
\* the value used for openings, closings and period results is that of
\* the last occurrence, never the sum of the occurrences.
C9_LastOccurrenceWins ==
  out.done =>
    /\ out.koncern.koncern_ib
         = OpeningLast(out.koncern.sets.andel \cup out.koncern.sets.aat)
    /\ out.bygg.bygg_ib = OpeningLast(out.bygg.sets.asset)
    /\ out.maskiner.maskiner_ib = OpeningLast(MASK_ASSETS)
    /\ out.intresse.intresseftg_ib
         = OpeningLast(out.intresse.sets.ASSET \cup out.intresse.sets.CONTRIB)
    /\ \A a \in RES_SHARE_SET \cap BalAccounts(ledger) : res[a] = Given(a, 0, "RES")

\* C10: a line that matches a tag but not its expected shape is skipped;
\* no input line makes the run abort with an error.
C10_MalformedLineNeverAborts == pc # "ValueError"

\* opening plus the signed movements of the group-shares and the buildings
\* roll-forward, from the returned fields
KoncernMoved ==
  out.koncern.koncern_ib + out.koncern.inkop_koncern + out.koncern.fusion_koncern
    + out.koncern.aktieagartillskott_lamnad_koncern - out.koncern.fsg_koncern
    - out.koncern.aktieagartillskott_aterbetald_koncern
    + out.koncern.resultatandel_koncern + out.koncern.omklass_koncern
ByggMoved ==
  out.bygg.bygg_ib + out.bygg.arets_inkop_bygg - out.bygg.arets_fsg_bygg
    + out.bygg.arets_omklass_bygg

\* C11: when a category's opening plus movements differs from the closing
\* balance the ledger states for it, the difference is not silently
\* corrected: the returned closing balance is the stated one, not opening
\* plus movements.
C11_ClosingNotReplaced ==
  out.done =>
    /\ LET stated == Closing(out.koncern.sets.andel \cup out.koncern.sets.aat)
       IN  (stated # 0 /\ KoncernMoved # stated) => out.koncern.koncern_ub = stated
    /\ LET stated == Closing(out.bygg.sets.asset)
       IN  (stated # 0 /\ ByggMoved # stated) => out.bygg.bygg_ub = stated

\* the orders in which the elements of a set can be iterated
Orders(S) ==
  {s \in [1..Cardinality(S) -> S] : \A i, j \in DOMAIN s : i # j => s[i] # s[j]}

C13_RerunWithOwnCategories ==
  out.done =>
    KoncernNote(KoncernSets(out.koncern.sets, ExternalNames(ledger))) = out.koncern

\* a run whose seeded sets differ from what the names alone give, with a
\* posting booked as a purchase
C13_Witness ==
  /\ out.done
  /\ out.koncern.sets # KoncernSets(NoSeeds, ExternalNames(ledger))
  /\ out.koncern.inkop_koncern > 0

\* a voucher whose only postings on the category's accounts are debits on
\* share accounts, with no signal account and no merger keyword
PlainShareDebit(key, S) ==
  LET txs == trans_by_ver[key]
  IN  /\ Debit(txs, S.andel) > 0
      /\ Debit(txs, S.aat) = 0
      /\ Credit(txs, S.andel \cup S.aat) = 0
      /\ Posted(txs) \cap KoncernSignals(S) = {}
      /\ ~HasKw(KoncernText(key), {"fusion"})

\* C14: a debit on a group-share account in a voucher with no signal
\* account and no merger keyword is booked in full as a purchase; when it
\* is the ledger's only voucher (and no period result is stated on the
\* result-share accounts) the computed closing minus the opening is that
\* debit.
C14_PlainDebitIsPurchase ==
  out.done =>
    \A key \in Vouchers :
      PlainShareDebit(key, out.koncern.sets) =>
        LET txs == trans_by_ver[key]
            S == out.koncern.sets
            v == KoncernVoucher(txs, KoncernText(key), S)
        IN  /\ v.inkop = Debit(txs, S.andel)
            /\ v.fusion = 0 /\ v.fsg = 0 /\ v.resultatandel = 0 /\ v.omklass = 0
            /\ (Vouchers = {key} /\ Get(res, 8030) = 0 /\ Get(res, 8240) = 0)
                 => /\ out.koncern.inkop_koncern = Debit(txs, S.andel)
                    /\ out.koncern.koncern_ub - out.koncern.koncern_ib
                         = Debit(txs, S.andel)

\* account 1310 opens above zero and the only voucher debits it
C14_Witness ==
  /\ out.done
  /\ out.koncern.koncern_ib > 0
  /\ \E key \in Keys :
       /\ Vouchers = {key}
       /\ PlainShareDebit(key, out.koncern.sets)
       /\ Posted(trans_by_ver[key]) = {1310}
  /\ out.koncern.koncern_ub = out.koncern.koncern_ib + out.koncern.inkop_koncern

\* the accumulated-impairment sub-accounts of the group-shares category:
\* the accounts the parser holds as such, and 1319
KoncernSubAccounts(S) == S.imp \cup {1319}

\* a voucher that credits a share account, debits a sub-account of the
\* category and holds a disposal profit/loss posting (and no result share)
DisposalWithReversal(key, S) ==
  LET txs == trans_by_ver[key]
  IN  /\ Credit(txs, S.andel) > 0
      /\ Debit(txs, KoncernSubAccounts(S)) > 0
      /\ Posted(txs) \cap SALE_PNL # {}
      /\ Posted(txs) \cap RES_SHARE_SET = {}

\* C15: in a voucher that credits a share account, debits the category's
\* accumulated-impairment sub-account and holds a disposal profit/loss
\* posting, the whole credit is booked as disposal and the sub-account
\* debit goes to the reversal tied to the disposal, not to the ordinary
\* reversal.
C15_DisposalTiesReversal ==
  out.done =>
    \A key \in Vouchers :
      DisposalWithReversal(key, out.koncern.sets) =>
        LET txs == trans_by_ver[key]
            S == out.koncern.sets
            v == KoncernVoucher(txs, KoncernText(key), S)
        IN  /\ v.fsg = Credit(txs, S.andel)
            /\ v.aterfor_nedskr_fsg = Debit(txs, KoncernSubAccounts(S))
            /\ v.aterfor_nedskr = 0

\* the aliases a run matches account names with: those harvested from the
\* ledger, those built from the external company names, and the name
\* tokens of the group-shares parser
UsedAliases ==
  extract_aliases.koncern \cup extract_aliases.intresse
    \cup {simplify(x) : x \in aliases_from_scraper}
    \cup NameTokens(ExternalNames(ledger))

\* the alias patterns of the groups
UsedPatterns == UNION {MergedPatterns(Groups[i]) : i \in 1..Len(Groups)}

\* C16: every alias used to match account names has at least three
\* characters, and every alias pattern has at least one token: a name that
\* reduces to a shorter or empty token yields nothing that can match an
\* account name.
C16_NoWeakAlias ==
  out.done =>
    /\ \A x \in UsedAliases : SimpleLen(x) >= 3
    /\ \A pat \in UsedPatterns : SimpleLen(pat) >= 3

\* C17: a posting line is recorded only while the parser is inside a block
\* and has a current voucher header, and then under that header alone;
\* posting lines before the first {, after a } or in a block without a
\* header change no voucher.
C17_RecordedOnlyInsideBlock ==
  [][trans_by_ver' # trans_by_ver =>
       /\ in_block
       /\ current_ver # None
       /\ \A key \in Keys \ {current_ver} : trans_by_ver'[key] = trans_by_ver[key]]_vars

\* a posting was recorded, the block was closed, and a header was read
\* again with no block open
C17_Witness ==
  /\ Vouchers # {}
  /\ ~in_block
  /\ current_ver # None

\* C18: all postings recorded between one { and its } are attributed to
\* one voucher: a header line read inside a block does not split the
\* postings of the bracket between two vouchers.
C18_OneVoucherPerBracket == Cardinality(bracket) <= 1

\* the input ended inside a block that holds postings
EndedInsideBlock ==
  /\ out.done
  /\ in_block
  /\ current_ver # None
  /\ trans_by_ver[current_ver] # <<>>

\* C19: a voucher block not closed by } at the end of the input is closed
\* implicitly: the run completes, and the postings read in the block are
\* classified as that voucher's postings, so the note is the one made of
\* every key's postings, those of the open block included.
C19_OpenBlockIsClassified ==
  EndedInsideBlock =>
    LET S == out.koncern.sets
        per == [key \in Keys |->
                  KoncernVoucher(trans_by_ver[key], KoncernText(key), S)]
        tot == [f \in KoncernFields |-> SumOver(Keys, [key \in Keys |-> per[key][f]])]
    IN  KoncernSummedUp(S, tot) = out.koncern

\* the run completed on an open block whose share debit was booked
C19_Witness ==
  /\ EndedInsideBlock
  /\ Vouchers = {current_ver}
  /\ out.koncern.inkop_koncern > 0

\* C20: per voucher the result share is resultPlus = min(D_asset, K_result)
\* and resultMinus = min(K_asset, D_result), D_asset and K_asset being the
\* debits and credits on the category's share and shareholder-contribution
\* accounts; it is consumed from the share amounts first and from the
\* contribution amounts only once those are exhausted, and the later steps
\* book the remainder: resultPlus + purchase/merger + contribution given
\* = D_asset, resultMinus + disposal or settlement + contribution repaid
\* = K_asset.  Checked for the group-shares and the associates roll-forward.
C20_ResultShareConsumedFirst ==
  out.done =>
    \A key \in Vouchers :
      LET txs == trans_by_ver[key]
          KS == out.koncern.sets
          kv == KoncernSums(txs, KoncernText(key), KS)
          kb == KoncernSummed(kv)
          k_plus == Min(kv.A_ANDEL_D + kv.A_AAT_D, kv.RES_K)
          k_minus == Min(kv.A_ANDEL_K + kv.A_AAT_K, kv.RES_D)
          k_settled == (k_plus - k_minus) - kb.resultatandel
          IS == out.intresse.sets
          iv == IntresseSums(txs, IntresseText(key), IS)
          ib0 == IntresseBuckets(iv)
          i_plus == Min(iv.A_D + iv.C_D, iv.RES_K)
          i_minus == Min(iv.A_K + iv.C_K, iv.RES_D)
      IN  /\ k_settled >= 0
          /\ k_plus + kb.inkop + kb.fusion + kb.aat_lamnad
               = kv.A_ANDEL_D + kv.A_AAT_D
          /\ k_minus + kb.fsg + k_settled + kb.aat_aterbetald
               = kv.A_ANDEL_K + kv.A_AAT_K
          /\ kb.aat_lamnad = kv.A_AAT_D - Max(0, k_plus - kv.A_ANDEL_D)
          /\ kb.aat_aterbetald = kv.A_AAT_K - Max(0, k_minus - kv.A_ANDEL_K)
          /\ ib0.resultatandel = i_plus - i_minus
          /\ i_plus + ib0.inkop + ib0.fusion + ib0.aat_lamnad = iv.A_D + iv.C_D
          /\ i_minus - ib0.fsg - ib0.aat_aterbetald = iv.A_K + iv.C_K

\* a voucher with credit left on share accounts once the result share has
\* consumed its part, and no posting on a disposal profit/loss account
RemainingCreditNoSalePnl(key, S) ==
  LET v == KoncernSums(trans_by_ver[key], KoncernText(key), S)
  IN  /\ KoncernRest(v, KoncernShare(v)).rem_andel_K > 0
      /\ ~v.has_sale_pnl

\* C21: the credit remaining on share accounts after result-share
\* consumption is booked as a disposal only if the voucher holds a posting
\* on a disposal profit/loss account (822x); with no such posting it
\* reduces the result share and nothing is booked as a disposal, whatever
\* the voucher text says.
C21_NoSaleWithoutSalePnl ==
  out.done =>
    \A key \in Vouchers :
      LET S == out.koncern.sets
          v == KoncernSums(trans_by_ver[key], KoncernText(key), S)
          r == KoncernShare(v)
          b == KoncernVoucher(trans_by_ver[key], KoncernText(key), S)
      IN  /\ b.fsg > 0 => v.has_sale_pnl
          /\ RemainingCreditNoSalePnl(key, S) =>
                /\ b.fsg = 0
                /\ b.resultatandel
                     = (r.res_plus - r.res_minus) - KoncernRest(v, r).rem_andel_K

\* the debit of a voucher on building asset accounts and its credit on the
\* revaluation reserve
ByggAssetDebit(key) == Debit(trans_by_ver[key], out.bygg.sets.asset)
ReserveCredit(key) == Credit(trans_by_ver[key], {UPSKR_FOND})

\* C22: in the buildings roll-forward each voucher's debit on building
\* asset accounts is split into a revaluation part min(D asset, K 2085)
\* and a purchase part max(0, D asset - revaluation part); the parts are
\* non-negative and sum to the voucher's D asset, and the year's
\* revaluation and purchases are the sums of the parts.
C22_DebitSplitIntoRevaluationAndPurchase ==
  out.done =>
    LET rev == [key \in Vouchers |-> Min(ByggAssetDebit(key), ReserveCredit(key))]
        buy == [key \in Vouchers |-> Max(0, ByggAssetDebit(key) - rev[key])]
    IN  /\ \A key \in Vouchers :
              /\ rev[key] >= 0 /\ buy[key] >= 0
              /\ rev[key] + buy[key] = ByggAssetDebit(key)
              /\ ByggVoucher(trans_by_ver[key], out.bygg.sets).uppskr = rev[key]
              /\ ByggVoucher(trans_by_ver[key], out.bygg.sets).inkop = buy[key]
        /\ out.bygg.arets_uppskr_bygg = SumOver(Vouchers, rev)
        /\ out.bygg.arets_inkop_bygg = SumOver(Vouchers, buy)

\* a voucher whose asset debit exceeds its credit on the reserve: part
\* revaluation, part purchase
C22_Witness ==
  /\ out.done
  /\ out.bygg.arets_uppskr_bygg > 0
  /\ out.bygg.arets_inkop_bygg > 0
  /\ Cardinality(Vouchers) = 1

\* C23: in the buildings roll-forward a voucher's credit on the
\* accumulated-depreciation sub-account is booked as depreciation of
\* revalued amount when the voucher also debits the revaluation reserve,
\* and as ordinary depreciation when the voucher has a depreciation-expense
\* debit and no reserve debit; no voucher adds to both buckets, and the
\* amount booked equals the credit on the depreciation sub-account.
C23_DepreciationCreditBookedInFull ==
  out.done =>
    \A key \in Vouchers :
      LET txs == trans_by_ver[key]
          S == out.bygg.sets
          v == ByggVoucher(txs, S)
          DEP_K == Credit(txs, S.dep)
          reserve_debit == Debit(txs, {UPSKR_FOND}) > 0
          expense_debit == AnyDebit(txs, BYGG_DEPR_COST)
      IN  /\ ~(v.avskr > 0 /\ v.avskr_uppskr > 0)
          /\ (DEP_K > 0 /\ reserve_debit) =>
                v.avskr_uppskr = DEP_K /\ v.avskr = 0
          /\ (DEP_K > 0 /\ ~reserve_debit /\ expense_debit) =>
                v.avskr = DEP_K /\ v.avskr_uppskr = 0

\* C24: a credit on a category's accumulated-impairment sub-account is a
\* new impairment charge: for every voucher the amount added to the year's
\* impairment bucket is the voucher's total credit on the impairment
\* sub-account, for buildings and machinery as for group and associate
\* shares.
C24_ImpairmentCreditIsCharge ==
  out.done =>
    \A key \in Vouchers :
      LET txs == trans_by_ver[key]
      IN  /\ ByggVoucher(txs, out.bygg.sets).nedskr = Credit(txs, out.bygg.sets.imp)
          /\ MaskinerVoucher(txs).nedskr = Credit(txs, ACC_IMP_MASK)
          /\ KoncernVoucher(txs, KoncernText(key), out.koncern.sets).arets_nedskr
               = Credit(txs, out.koncern.sets.imp)
          /\ IntresseVoucher(txs, IntresseText(key), out.intresse.sets).arets_nedskr
               = Credit(txs, out.intresse.sets.ACC_IMP)

\* amount d booked to exactly one of the buckets: the disposal-tied one
\* when the voucher is a disposal, else the merger one when the text has
\* the merger keyword, else the plain one
InOneReversalBucket(d, disposal, merger, tied, fusion, plain) ==
  /\ tied = (IF disposal THEN d ELSE 0)
  /\ fusion = (IF ~disposal /\ merger THEN d ELSE 0)
  /\ plain = (IF ~disposal /\ ~merger THEN d ELSE 0)

\* C25: every debit on a category's accumulated-impairment sub-account is
\* booked to exactly one reversal bucket: the disposal-tied reversal when
\* the voucher is a disposal, otherwise the non-disposal reversal (merger
\* reversal when the voucher text has the merger keyword, plain reversal
\* otherwise); never to two buckets and never to none.
C25_ImpairmentDebitInOneBucket ==
  out.done =>
    \A key \in Vouchers :
      LET txs == trans_by_ver[key]
          kv == KoncernVoucher(txs, KoncernText(key), out.koncern.sets)
          iv == IntresseVoucher(txs, IntresseText(key), out.intresse.sets)
          bv == ByggVoucher(txs, out.bygg.sets)
      IN  /\ InOneReversalBucket(Debit(txs, out.koncern.sets.imp), kv.fsg # 0,
                                 HasKw(KoncernText(key), {"fusion"}),
                                 kv.aterfor_nedskr_fsg, kv.aterfor_nedskr_fusion,
                                 kv.aterfor_nedskr)
          /\ InOneReversalBucket(Debit(txs, out.intresse.sets.ACC_IMP), iv.fsg # 0,
                                 HasKw(IntresseText(key), {"fusion"}),
                                 iv.aterfor_nedskr_fsg, iv.aterfor_nedskr_fusion,
                                 iv.aterfor_nedskr)
          /\ InOneReversalBucket(Debit(txs, out.bygg.sets.imp), bv.fsg # 0, FALSE,
                                 bv.aterfor_nedskr_fsg, 0, bv.aterfor_nedskr)

\* the asset accounts and accumulated depreciation/impairment sub-accounts
\* of each category, as the run holds them
KoncernCategory == out.koncern.sets.andel \cup out.koncern.sets.aat \cup out.koncern.sets.imp
ByggCategory == out.bygg.sets.asset \cup out.bygg.sets.dep \cup out.bygg.sets.imp
MaskinerCategory == MASK_ASSETS \cup ACC_DEP_MASK \cup ACC_IMP_MASK
IntresseCategory ==
  out.intresse.sets.ASSET \cup out.intresse.sets.CONTRIB \cup out.intresse.sets.ACC_IMP

\* the vouchers with a posting on an account of the set
Touching(S) == {key \in Vouchers : Posted(trans_by_ver[key]) \cap S # {}}

\* C26: a voucher with no posting on any asset account or accumulated
\* depreciation/impairment sub-account of a category leaves every movement
\* bucket of that category unchanged, whatever else it posts: it adds zero
\* to every bucket, and the group-shares note is the one computed from the
\* other vouchers alone.
C26_VoucherOutsideCategoryIgnored ==
  out.done =>
    /\ \A key \in Vouchers \ Touching(KoncernCategory) :
          \A f \in KoncernFields :
            KoncernVoucher(trans_by_ver[key], KoncernText(key), out.koncern.sets)[f] = 0
    /\ \A key \in Vouchers \ Touching(ByggCategory) :
          \A f \in ByggFields : ByggVoucher(trans_by_ver[key], out.bygg.sets)[f] = 0
    /\ \A key \in Vouchers \ Touching(MaskinerCategory) :
          \A f \in MaskinerFields : MaskinerVoucher(trans_by_ver[key])[f] = 0
    /\ \A key \in Vouchers \ Touching(IntresseCategory) :
          \A f \in KoncernFields :
            IntresseVoucher(trans_by_ver[key], IntresseText(key), out.intresse.sets)[f] = 0
    /\ \A ord \in Orders(Touching(KoncernCategory)) :
          KoncernSummedUp(out.koncern.sets, KoncernLoop(ord, out.koncern.sets))
            = out.koncern

\* a voucher that posts on a result-share and a disposal profit/loss
\* account of the group-shares category and on none of its share or
\* impairment accounts
C26_Witness ==
  /\ out.done
  /\ \E key \in Vouchers \ Touching(KoncernCategory) :
        /\ Posted(trans_by_ver[key]) \cap RES_SHARE_SET # {}
        /\ Posted(trans_by_ver[key]) \cap SALE_PNL # {}

C28_ContributionCreditIsRepayment ==
  out.done =>
    \A key \in Vouchers :
      LET v == IntresseSums(trans_by_ver[key], IntresseText(key), out.intresse.sets)
          b == IntresseBuckets(v)
          res_minus == IF v.A_K > 0 /\ v.RES_D > 0 THEN Min(v.A_K, v.RES_D) ELSE 0
      IN  /\ b.aat_lamnad = v.C_D
          /\ (v.C_K > 0 /\ v.A_K - res_minus = 0) =>
                b.aat_aterbetald = -v.C_K /\ b.fsg = 0

\* the buildings account sets of the run, kept to the accounts the
\* range-and-SRU rule admits
ByggMembers ==
  [asset |-> {a \in out.bygg.sets.asset : belongs_to_bygg(a)},
   dep |-> {a \in out.bygg.sets.dep : belongs_to_bygg(a)},
   imp |-> {a \in out.bygg.sets.imp : belongs_to_bygg(a)}]

\* C29: membership in the buildings category follows the combined rule: an
\* account with no SRU code counts iff it lies in the nominal ranges, an
\* account with an SRU code counts iff the code is 7214; so the buildings
\* balances and movements are those of the accounts the rule admits, an
\* account outside the ranges carrying 7214 included and an account inside
\* the ranges carrying another code excluded.
C29_MembershipByRangeAndSru ==
  out.done =>
    /\ \A a \in DOMAIN sru_codes :
          (a \in ByggCategory) <=> (sru_codes[a] = SRU_BYGG)
    /\ out.bygg.bygg_ib = get_balance(ByggMembers.asset)
    /\ out.bygg.ack_avskr_bygg_ib = get_balance(ByggMembers.dep)
    /\ \A key \in Vouchers :
          ByggVoucher(trans_by_ver[key], out.bygg.sets)
            = ByggVoucher(trans_by_ver[key], ByggMembers)

\* C30: movement buckets keep a fixed sign: in the group-shares
\* roll-forward purchases, merger, contribution given, contribution
\* repaid, disposals, the impairment charge and the reversal buckets are
\* never negative (disposals and repaid contributions are subtracted in the
\* closing balance); in the associates roll-forward the disposal and
\* repaid-contribution buckets are never positive (they are added).
C30_BucketsKeepTheirSign ==
  out.done =>
    /\ out.koncern.inkop_koncern >= 0
    /\ out.koncern.fusion_koncern >= 0
    /\ out.koncern.aktieagartillskott_lamnad_koncern >= 0
    /\ out.koncern.aktieagartillskott_aterbetald_koncern >= 0
    /\ out.koncern.fsg_koncern >= 0
    /\ out.koncern.arets_nedskr_koncern >= 0
    /\ out.koncern.aterfor_nedskr_koncern >= 0
    /\ out.koncern.aterfor_nedskr_fsg_koncern >= 0
    /\ out.koncern.aterfor_nedskr_fusion_koncern >= 0
    /\ out.koncern.koncern_ub = KoncernMoved
    /\ out.intresse.fsg_intresseftg <= 0
    /\ out.intresse.aktieagartillskott_aterbetald_intresseftg <= 0
    /\ out.intresse.intresseftg_ub
         = out.intresse.intresseftg_ib + out.intresse.inkop_intresseftg
             + out.intresse.fusion_intresseftg + out.intresse.fsg_intresseftg
             + out.intresse.aktieagartillskott_lamnad_intresseftg
             + out.intresse.aktieagartillskott_aterbetald_intresseftg
             + out.intresse.resultatandel_intresseftg
             + out.intresse.omklass_intresseftg

\* an associates disposal: the bucket is negative and the closing balance
\* is below the opening
C30_Witness ==
  /\ out.done
  /\ out.intresse.fsg_intresseftg < 0
  /\ out.intresse.intresseftg_ib > 0
  /\ out.intresse.intresseftg_ub < out.intresse.intresseftg_ib

====
